---- MODULE Spec2Model ----
(***************************************************************************)
(* Transactional workflows of the Atomicity demo (TransactionService and   *)
(* ConsistencyService) over a model of the PostgreSQL store they use       *)
(* through Sequelize.  Every await of a service method is one step; calls  *)
(* of different requests interleave between awaits.                        *)
(***************************************************************************)
EXTENDS Integers, Sequences, FiniteSets, TLC

\* ------------------------------------------------------------------ bounds
Procs == {1, 2}
MaxCalls == 2
MaxAddrs == 2
MaxUserId == 2
MaxRuleCalls == 2
MaxReads == 2

\* ------------------------------------------------------------- input data
NameLong == <<"B", "o", "b">>
EmailA == <<"a", "@", "x">>
EmailB == <<"b", "@", "x">>
ZipGood == <<"1", "2", "3", "4", "5">>
ZipOther == <<"9", "0", "0", "0", "1">>
\* a field the request leaves out (undefined in JavaScript, NULL in the store)
Undefined == <<"undefined">>
\* values the business rules reject
NameShort == <<"A", "B">>
EmailNoAt == <<"i", "n", "v", "a", "l", "i", "d", "-", "e", "m", "a", "i", "l">>
ZipBad == <<"1", "2", "3">>
ZipAlpha == <<"1", "2", "3", "4", "a">>

Names == {NameLong}
Emails == {EmailA, EmailB}

\* the i-th address of a request
AddrAt(i) == [zipCode |-> IF i % 2 = 1 THEN ZipGood ELSE ZipOther]

UserIds == 1..MaxUserId

\* Date.now() of the calls that build an email from it
Times == {"1", "2"}

\* userId: 99999 of the invalid address of demonstrateForeignKeyConstraint
InvalidUserId == 99999

UserData == [name : Names, email : Emails]
AddrLists == {[i \in 1..n |-> AddrAt(i)] : n \in 0..MaxAddrs}

\* request bodies of the business-rules route: any non-empty name and email,
\* any array of addresses
RuleUserData == [name : {NameLong, NameShort}, email : {EmailA, EmailNoAt}]
RuleAddrs == [zipCode : {ZipGood, ZipBad, ZipAlpha}]
RuleAddrLists == UNION {[1..n -> RuleAddrs] : n \in 0..MaxAddrs}

\* ---------------------------------------------------------- error messages
NoError == <<>>
SimulatedFailure == <<"Simulated transaction failure for testing rollback">>
UserNotFound == <<"User not found">>
UniqueViolation == <<"Validation error">>
NotNullViolation == <<"notNull Violation">>
ForeignKeyViolation == <<"violates foreign key constraint">>
StoreError == <<"store error">>
TxFinished == <<"Transaction cannot be rolled back because it has been finished">>
BusinessRulePrefix == <<"Failed to demonstrate business rule consistency: ">>

\* ------------------------------------------------------- string functions
Digits == {"0", "1", "2", "3", "4", "5", "6", "7", "8", "9"}

\* String.prototype.includes for a single character
Includes(str, ch) == \E i \in 1..Len(str) : str[i] = ch

\* a pattern that only counts the characters
IsZipCodeLengthOnly(str) == Len(str) = 5

\* /^\d{5}$/.test(str)
IsZipCode(str) == Len(str) = 5 /\ \A i \in 1..Len(str) : str[i] \in Digits

\* ------------------------------------------------------------------- state
VARIABLES
  users,      \* committed rows of table users
  addresses,  \* committed rows of table addresses
  userSeq,    \* last value of the users id sequence
  addrSeq,    \* last value of the addresses id sequence
  tx,         \* the transaction of each call
  pc,         \* position of each call
  call,       \* operation and arguments of each call
  local,      \* local variables of each call
  outcome,    \* what each call returned or threw
  ncalls      \* number of calls started so far

vars == <<users, addresses, userSeq, addrSeq, tx, pc, call, local, outcome, ncalls>>

NoUser == [id |-> 0, name |-> <<>>, email |-> <<>>]

NoTx == [state |-> "none", aborted |-> FALSE, ends |-> <<>>,
         insU |-> {}, insA |-> {}, delU |-> {}, delA |-> {},
         updU |-> {}, level |-> "read", snapped |-> FALSE, snapU |-> {}]

NoCall == [op |-> "none"]

NoLocal == [savedUser |-> NoUser, addresses |-> <<>>, error |-> NoError,
            invalid |-> FALSE, before |-> 0, after |-> 0, reads |-> <<>>,
            counts |-> <<>>]

NoOutcome == [kind |-> "none"]

\* ------------------------------------------------------------------- store
\* sequelize.transaction(): BEGIN on a connection of its own
TxBegin == [NoTx EXCEPT !.state = "open"]

\* the second transaction of a call that opens two: transaction1 of call p
\* is tx[p], transaction2 is tx[TxB(p)]
TxB(p) == p + Cardinality(Procs)

Txs == Procs \cup {TxB(p) : p \in Procs}

\* sequelize.transaction({isolationLevel}): READ UNCOMMITTED and READ
\* COMMITTED are the same level in PostgreSQL ("read"); REPEATABLE READ and
\* SERIALIZABLE read from a snapshot ("snapshot")
TxBeginAt(level) == [NoTx EXCEPT !.state = "open", !.level = level]

\* a transaction that takes no snapshot
SnapNever(t) == t

\* the first statement of a snapshot transaction fixes the rows of users
\* that its reads will see
Snap(t) ==
  IF t.level = "snapshot" /\ ~t.snapped
    THEN [t EXCEPT !.snapped = TRUE, !.snapU = users]
    ELSE t

\* a row of users with the update of transaction t applied
Updated(t, u) ==
  IF \E w \in t.updU : w.id = u.id
    THEN [u EXCEPT !.name = (CHOOSE w \in t.updU : w.id = u.id).name]
    ELSE u

\* writes applied without the inserted rows
WriteUsersNoInserts(t, base) ==
  {Updated(t, u) : u \in {v \in base : v.id \notin t.delU}}

\* the writes of transaction t applied to the rows base
WriteUsers(t, base) ==
  {Updated(t, u) : u \in {v \in base : v.id \notin t.delU}} \cup t.insU

\* rows of users a statement of transaction t sees: the committed rows (of
\* its snapshot, if it has one) without those it has deleted, with its
\* updates, and its own inserts
VisUsers(t) == WriteUsers(t, IF t.snapped THEN t.snapU ELSE users)

VisAddrs(t) == {a \in addresses : a.id \notin t.delA} \cup t.insA

\* transactions of the other calls that are still open in the store
OtherOpen(p) == {tx[q] : q \in {r \in Txs \ {p} : tx[r].state = "open"}}

\* a commit that persists no row of users
CommittedUsersDiscarded(t) == users

\* COMMIT: the writes of the transaction become visible in one step; a
\* transaction in which a statement failed is rolled back by COMMIT
CommittedUsers(t) == IF t.aborted THEN users ELSE WriteUsers(t, users)

CommittedAddrs(t) == IF t.aborted THEN addresses ELSE VisAddrs(t)

TxCommit(t) ==
  IF t.state = "open"
    THEN [t EXCEPT !.state = IF t.aborted THEN "rolledback" ELSE "committed",
                   !.ends = Append(@, "commit")]
    ELSE [t EXCEPT !.ends = Append(@, "commit")]

\* ROLLBACK: the writes of the transaction are discarded
TxRollback(t) ==
  IF t.state = "open"
    THEN [t EXCEPT !.state = "rolledback", !.ends = Append(@, "rollback")]
    ELSE [t EXCEPT !.ends = Append(@, "rollback")]

\* a users table without the unique index
EmailNeverTaken(t, email) == FALSE

\* unique index on users.email
EmailTaken(t, email) == \E u \in VisUsers(t) : u.email = email

\* an insert that waits for no other transaction
EmailNeverLocked(p, email) == FALSE

\* an insert of an email waits for an open transaction that inserted or
\* deleted a row with the same email
EmailLocked(p, email) ==
  \E o \in OtherOpen(p) :
     \/ \E u \in o.insU : u.email = email
     \/ \E u \in users : u.id \in o.delU /\ u.email = email

\* a user_id column without the reference to users
UserIdUnchecked(t, userId) == TRUE

\* foreign key addresses.user_id -> users.id
UserIdResolves(t, userId) == \E u \in VisUsers(t) : u.id = userId

\* User.findByPk(userId, {transaction}): the row with that id, if any
FindByPk(t, userId) == {u \in VisUsers(t) : u.id = userId}

\* a delete or update waits for an open transaction that deleted or
\* updated the same row
UserLocked(p, userId) ==
  \E o \in OtherOpen(p) :
     \/ userId \in o.delU
     \/ \E w \in o.updU : w.id = userId

AddrLocked(p, ids) == \E o \in OtherOpen(p) : o.delA \cap ids # {}

\* a delete that takes every row of addresses
DeleteAddrRowsAll(t, ids) ==
  [t EXCEPT !.delA = {a.id : a \in addresses}, !.insA = {}]

\* DELETE FROM addresses of the rows ids, inside transaction t
DeleteAddrRows(t, ids) ==
  [t EXCEPT !.delA = @ \cup (ids \cap {a.id : a \in addresses}),
            !.insA = {a \in @ : a.id \notin ids}]

\* rows of addresses that reference user userId, as transaction t sees them
AddrIdsOf(t, userId) == {a.id : a \in {b \in VisAddrs(t) : b.userId = userId}}

\* a foreign key that does not cascade
OnDeleteNoAction(t, userId) == t

\* ON DELETE CASCADE of addresses.user_id: the delete of a user row deletes
\* the address rows that reference it
OnDeleteCascade(t, userId) == DeleteAddrRows(t, AddrIdsOf(t, userId))

\* DELETE FROM users WHERE id = userId, inside transaction t
DestroyUser(t, userId) ==
  [OnDeleteCascade(t, userId) EXCEPT
     !.delU = @ \cup ({userId} \cap {u.id : u \in users}),
     !.insU = {u \in @ : u.id # userId}]

\* the delete of a user row waits for open transactions that deleted the row,
\* deleted one of its addresses, or inserted an address that references it
DestroyUserBlocked(p, t, userId) ==
  \/ UserLocked(p, userId)
  \/ AddrLocked(p, AddrIdsOf(t, userId))
  \/ \E o \in OtherOpen(p) : \E a \in o.insA : a.userId = userId

\* ------------------------------------------------------------------- Init
\* the database the service connects to: empty, or holding a user with its
\* addresses that an earlier createUserWithAddresses committed
SeedUser == [id |-> 1, name |-> NameLong, email |-> EmailA]

SeedAddrs == {[id |-> i, userId |-> 1, zipCode |-> AddrAt(i).zipCode] : i \in 1..MaxAddrs}

Init ==
  /\ \/ /\ users = {}
        /\ addresses = {}
        /\ userSeq = 0
        /\ addrSeq = 0
     \/ /\ users = {SeedUser}
        /\ addresses = SeedAddrs
        /\ userSeq = 1
        /\ addrSeq = MaxAddrs
  /\ tx = [p \in Txs |-> NoTx]
  /\ pc = [p \in Procs |-> "idle"]
  /\ call = [p \in Procs |-> NoCall]
  /\ local = [p \in Procs |-> NoLocal]
  /\ outcome = [p \in Procs |-> NoOutcome]
  /\ ncalls = 0

\* a slot is free for a request when it runs no call and every slot before
\* it is busy (the calls in flight are distinct requests; which slot holds
\* which is immaterial)
Free(p) ==
  /\ pc[p] \in {"idle", "done"}
  /\ \A q \in Procs : q < p => pc[q] \notin {"idle", "done"}
  /\ ncalls < MaxCalls

\* a request arrives and the service method is entered
Enter(p, c, next) ==
  /\ ncalls' = ncalls + 1
  /\ call' = [call EXCEPT ![p] = c]
  /\ local' = [local EXCEPT ![p] = NoLocal]
  /\ pc' = [pc EXCEPT ![p] = next]

\* const transaction = await sequelize.transaction()
Start(p, c, next) ==
  /\ Enter(p, c, next)
  /\ outcome' = [outcome EXCEPT ![p] = NoOutcome]
  /\ tx' = [tx EXCEPT ![p] = TxBegin]
  /\ UNCHANGED <<users, addresses, userSeq, addrSeq>>

\* a statement of transaction tx[p] was rejected by the store with error e
Fail(p, e, next) ==
  /\ tx' = [tx EXCEPT ![p].aborted = TRUE]
  /\ local' = [local EXCEPT ![p].error = e]
  /\ pc' = [pc EXCEPT ![p] = next]

\* the service code itself threw e (no statement failed)
Throw(p, e, next) ==
  /\ local' = [local EXCEPT ![p].error = e]
  /\ pc' = [pc EXCEPT ![p] = next]

\* ---------------------------------------------------- statements in tx[p]
\* User.create({name, email}, {transaction}) of a call whose result is kept
\* in savedUser
UserCreate(p, d, okpc, errpc) ==
  \/ /\ EmailTaken(tx[p], d.email)
     /\ ~EmailLocked(p, d.email)
     /\ Fail(p, UniqueViolation, errpc)
     /\ userSeq' = userSeq + 1
  \/ /\ Fail(p, StoreError, errpc)
     /\ UNCHANGED userSeq
  \/ /\ ~EmailTaken(tx[p], d.email)
     /\ ~EmailLocked(p, d.email)
     /\ LET row == [id |-> userSeq + 1, name |-> d.name, email |-> d.email]
        IN /\ tx' = [tx EXCEPT ![p].insU = @ \cup {row}]
           /\ local' = [local EXCEPT ![p].savedUser = row]
     /\ userSeq' = userSeq + 1
     /\ pc' = [pc EXCEPT ![p] = okpc]

\* Address.create({..., zipCode, userId}, {transaction}) of a call that
\* collects the created rows in addresses
AddressCreate(p, d, userId, okpc, errpc) ==
  LET row == [id |-> addrSeq + 1, userId |-> userId, zipCode |-> d.zipCode]
  IN \/ /\ d.zipCode = Undefined
        /\ Throw(p, NotNullViolation, errpc)
        /\ UNCHANGED <<tx, addrSeq>>
     \/ /\ Fail(p, StoreError, errpc)
        /\ UNCHANGED addrSeq
     \/ /\ d.zipCode # Undefined
        /\ ~UserIdResolves(tx[p], userId)
        /\ Fail(p, ForeignKeyViolation, errpc)
        /\ addrSeq' = addrSeq + 1
     \/ /\ d.zipCode # Undefined
        /\ UserIdResolves(tx[p], userId)
        /\ tx' = [tx EXCEPT ![p].insA = @ \cup {row}]
        /\ local' = [local EXCEPT ![p].addresses = Append(@, row)]
        /\ addrSeq' = addrSeq + 1
        /\ pc' = [pc EXCEPT ![p] = okpc]

\* await transaction.commit() of tx[p]
Commit(p) ==
  /\ users' = CommittedUsers(tx[p])
  /\ addresses' = CommittedAddrs(tx[p])
  /\ tx' = [tx EXCEPT ![p] = TxCommit(@)]

\* a rollback that persists the writes
RollbackPersists(p) ==
  /\ users' = VisUsers(tx[p])
  /\ addresses' = VisAddrs(tx[p])
  /\ tx' = [tx EXCEPT ![p] = TxRollback(@)]

\* await transaction.rollback() of tx[p]
Rollback(p) ==
  /\ tx' = [tx EXCEPT ![p] = TxRollback(@)]
  /\ UNCHANGED <<users, addresses>>

\* the call ends with result r
Return(p, r) ==
  /\ outcome' = [outcome EXCEPT ![p] = r]
  /\ pc' = [pc EXCEPT ![p] = "done"]

\* ------------------------------------------------ createUserWithAddresses
CreateBegin(p) ==
  /\ Free(p)
  /\ \E d \in UserData, as \in AddrLists, sf \in BOOLEAN :
       Start(p, [op |-> "create", user |-> d, addresses |-> as, shouldFail |-> sf],
           "c_user")

\* CreateUser without the transaction option: the row is stored at once
CreateUserNoTransaction(p) ==
  /\ pc[p] = "c_user"
  /\ LET row == [id |-> userSeq + 1, name |-> call[p].user.name,
                 email |-> call[p].user.email]
     IN /\ users' = users \cup {row}
        /\ local' = [local EXCEPT ![p].savedUser = row]
  /\ userSeq' = userSeq + 1
  /\ pc' = [pc EXCEPT ![p] = IF Len(call[p].addresses) = 0 THEN "c_finish" ELSE "c_addr"]
  /\ UNCHANGED <<addresses, addrSeq, tx, call, outcome, ncalls>>

\* const savedUser = await User.create({name, email}, {transaction})
CreateUser(p) ==
  /\ pc[p] = "c_user"
  /\ UserCreate(p, call[p].user,
                IF Len(call[p].addresses) = 0 THEN "c_finish" ELSE "c_addr",
                "c_catch")
  /\ UNCHANGED <<users, addresses, addrSeq, call, outcome, ncalls>>

\* CreateAddress with the created rows collected in reverse
CreateAddressUnshift(p) ==
  /\ pc[p] = "c_addr"
  /\ LET i == Len(local[p].addresses) + 1
         row == [id |-> addrSeq + 1, userId |-> local[p].savedUser.id,
                 zipCode |-> call[p].addresses[i].zipCode]
     IN /\ tx' = [tx EXCEPT ![p].insA = @ \cup {row}]
        /\ local' = [local EXCEPT ![p].addresses = <<row>> \o @]
        /\ addrSeq' = addrSeq + 1
        /\ pc' = [pc EXCEPT ![p] = IF i = Len(call[p].addresses)
                                     THEN "c_finish" ELSE "c_addr"]
  /\ UNCHANGED <<users, addresses, userSeq, call, outcome, ncalls>>

\* CreateAddress with the loop going on after a failed insert
CreateAddressContinues(p) ==
  /\ pc[p] = "c_addr"
  /\ LET i == Len(local[p].addresses) + 1
     IN AddressCreate(p, call[p].addresses[i], local[p].savedUser.id,
                      IF i = Len(call[p].addresses) THEN "c_finish" ELSE "c_addr",
                      "c_addr")
  /\ UNCHANGED <<users, addresses, userSeq, call, outcome, ncalls>>

\* addresses.push(await Address.create({..., userId: savedUser.id},
\* {transaction})), iteration i of the loop
CreateAddress(p) ==
  /\ pc[p] = "c_addr"
  /\ LET i == Len(local[p].addresses) + 1
     IN AddressCreate(p, call[p].addresses[i], local[p].savedUser.id,
                      IF i = Len(call[p].addresses) THEN "c_finish" ELSE "c_addr",
                      "c_catch")
  /\ UNCHANGED <<users, addresses, userSeq, call, outcome, ncalls>>

\* CreateFinish failing only when no address was supplied
CreateFinishOnlyWithoutAddresses(p) ==
  /\ pc[p] = "c_finish"
  /\ IF call[p].shouldFail /\ Len(call[p].addresses) = 0
       THEN /\ Throw(p, SimulatedFailure, "c_catch")
            /\ UNCHANGED <<users, addresses, tx, outcome>>
       ELSE /\ Commit(p)
            /\ Return(p, [kind |-> "return", user |-> local[p].savedUser,
                          addresses |-> local[p].addresses])
            /\ UNCHANGED local
  /\ UNCHANGED <<userSeq, addrSeq, call, ncalls>>

\* if (shouldFail) throw ...; await transaction.commit(); return {user, addresses}
CreateFinish(p) ==
  /\ pc[p] = "c_finish"
  /\ IF call[p].shouldFail
       THEN /\ Throw(p, SimulatedFailure, "c_catch")
            /\ UNCHANGED <<users, addresses, tx, outcome>>
       ELSE /\ Commit(p)
            /\ Return(p, [kind |-> "return", user |-> local[p].savedUser,
                          addresses |-> local[p].addresses])
            /\ UNCHANGED local
  /\ UNCHANGED <<userSeq, addrSeq, call, ncalls>>

\* CreateCatch with the rollback replaced by a commit
CreateCatchCommits(p) ==
  /\ pc[p] = "c_catch"
  /\ users' = VisUsers(tx[p])
  /\ addresses' = VisAddrs(tx[p])
  /\ tx' = [tx EXCEPT ![p] = [@ EXCEPT !.state = "committed",
                                       !.ends = Append(@, "commit")]]
  /\ Return(p, [kind |-> "throw", error |-> local[p].error])
  /\ UNCHANGED <<userSeq, addrSeq, call, local, ncalls>>

\* catch (error) { await transaction.rollback(); throw error; }
CreateCatch(p) ==
  /\ pc[p] = "c_catch"
  /\ Rollback(p)
  /\ Return(p, [kind |-> "throw", error |-> local[p].error])
  /\ UNCHANGED <<userSeq, addrSeq, call, local, ncalls>>

\* ------------------------------------------------------------- deleteUser
DeleteBegin(p) ==
  /\ Free(p)
  /\ \E id \in UserIds :
       Start(p, [op |-> "delete", userId |-> id], "d_find")

\* DeleteFind without the check of the row found
DeleteFindNoCheck(p) ==
  /\ pc[p] = "d_find"
  /\ local' = [local EXCEPT ![p].savedUser =
       IF FindByPk(tx[p], call[p].userId) # {}
         THEN CHOOSE u \in FindByPk(tx[p], call[p].userId) : TRUE
         ELSE [NoUser EXCEPT !.id = call[p].userId]]
  /\ pc' = [pc EXCEPT ![p] = "d_addr"]
  /\ UNCHANGED <<users, addresses, userSeq, addrSeq, tx, call, outcome, ncalls>>

\* DeleteFind answering false for a user that is not found
DeleteFindReturnsFalse(p) ==
  /\ pc[p] = "d_find"
  /\ \/ /\ Fail(p, StoreError, "d_catch")
        /\ UNCHANGED <<users, addresses, outcome>>
     \/ /\ FindByPk(tx[p], call[p].userId) = {}
        /\ Rollback(p)
        /\ Return(p, [kind |-> "return", value |-> FALSE])
        /\ UNCHANGED local
     \/ /\ FindByPk(tx[p], call[p].userId) # {}
        /\ local' = [local EXCEPT ![p].savedUser =
             CHOOSE u \in FindByPk(tx[p], call[p].userId) : TRUE]
        /\ pc' = [pc EXCEPT ![p] = "d_addr"]
        /\ UNCHANGED <<users, addresses, tx, outcome>>
  /\ UNCHANGED <<userSeq, addrSeq, call, ncalls>>

\* User.findByPk(userId, {include: addresses, transaction}); if (!user) throw
DeleteFind(p) ==
  /\ pc[p] = "d_find"
  /\ \/ Fail(p, StoreError, "d_catch")
     \/ /\ FindByPk(tx[p], call[p].userId) = {}
        /\ Throw(p, UserNotFound, "d_catch")
        /\ UNCHANGED tx
     \/ /\ FindByPk(tx[p], call[p].userId) # {}
        /\ local' = [local EXCEPT ![p].savedUser =
             CHOOSE u \in FindByPk(tx[p], call[p].userId) : TRUE]
        /\ pc' = [pc EXCEPT ![p] = "d_addr"]
        /\ UNCHANGED tx
  /\ UNCHANGED <<users, addresses, userSeq, addrSeq, call, outcome, ncalls>>

\* DeleteAddresses with the statement issued outside the transaction
DeleteAddressesNoTransaction(p) ==
  /\ pc[p] = "d_addr"
  /\ ~AddrLocked(p, {a.id : a \in addresses})
  /\ addresses' = {a \in addresses : a.userId # local[p].savedUser.id}
  /\ pc' = [pc EXCEPT ![p] = "d_user"]
  /\ UNCHANGED <<users, userSeq, addrSeq, tx, call, local, outcome, ncalls>>

\* Address.destroy({where: {userId: user.id}, transaction})
DeleteAddresses(p) ==
  /\ pc[p] = "d_addr"
  /\ \/ Fail(p, StoreError, "d_catch")
     \/ LET ids == {a.id : a \in {b \in VisAddrs(tx[p]) :
                                    b.userId = local[p].savedUser.id}}
        IN /\ ~AddrLocked(p, ids)
           /\ tx' = [tx EXCEPT ![p] = DeleteAddrRows(@, ids)]
           /\ pc' = [pc EXCEPT ![p] = "d_user"]
           /\ UNCHANGED local
  /\ UNCHANGED <<users, addresses, userSeq, addrSeq, call, outcome, ncalls>>

\* User.destroy({where: {id: user.id}, transaction})
DeleteUserRow(p) ==
  /\ pc[p] = "d_user"
  /\ \/ Fail(p, StoreError, "d_catch")
     \/ /\ ~DestroyUserBlocked(p, tx[p], local[p].savedUser.id)
        /\ tx' = [tx EXCEPT ![p] = DestroyUser(@, local[p].savedUser.id)]
        /\ pc' = [pc EXCEPT ![p] = "d_commit"]
        /\ UNCHANGED local
  /\ UNCHANGED <<users, addresses, userSeq, addrSeq, call, outcome, ncalls>>

\* DeleteCommit with the commit left out
DeleteCommitMissing(p) ==
  /\ pc[p] = "d_commit"
  /\ Return(p, [kind |-> "return", value |-> TRUE])
  /\ UNCHANGED <<users, addresses, tx, userSeq, addrSeq, call, local, ncalls>>

\* await transaction.commit(); return true
DeleteCommit(p) ==
  /\ pc[p] = "d_commit"
  /\ Commit(p)
  /\ Return(p, [kind |-> "return", value |-> TRUE])
  /\ UNCHANGED <<userSeq, addrSeq, call, local, ncalls>>

\* DeleteCatch throwing an error of its own after the rollback
DeleteCatchNewError(p) ==
  /\ pc[p] = "d_catch"
  /\ Rollback(p)
  /\ Return(p, [kind |-> "throw", error |-> <<"Failed to delete user">>])
  /\ UNCHANGED <<userSeq, addrSeq, call, local, ncalls>>

\* catch (error) { await transaction.rollback(); throw error; }
DeleteCatch(p) ==
  /\ pc[p] = "d_catch"
  /\ Rollback(p)
  /\ Return(p, [kind |-> "throw", error |-> local[p].error])
  /\ UNCHANGED <<userSeq, addrSeq, call, local, ncalls>>

\* router.delete('/users/:id'): the status of the response for the outcome o
\* of deleteUser: 404 if (!deleted), 200 otherwise, 500 in the catch block
DeleteRouteStatus(o) ==
  IF o.kind = "throw" THEN 500
  ELSE IF ~o.value THEN 404
  ELSE 200

\* ------------------------------------ demonstrateBusinessRuleConsistency
\* Business Rule 4: one message per address whose zip code is not 5 digits
RECURSIVE ZipViolations(_)
ZipViolations(as) ==
  IF as = <<>> THEN <<>>
  ELSE (IF IsZipCode(Head(as).zipCode) THEN <<>>
        ELSE <<[msg |-> "Invalid zip code format: ", arg |-> Head(as).zipCode]>>)
       \o ZipViolations(Tail(as))

\* the rules evaluated with a return at the first violation
ViolationsShortCircuit(userData, as) ==
  IF ~Includes(userData.email, "@")
    THEN <<[msg |-> "Email must contain @ symbol", arg |-> <<>>]>>
  ELSE IF Len(userData.name) < 3
    THEN <<[msg |-> "Name must be at least 3 characters", arg |-> <<>>]>>
  ELSE IF Len(as) = 0
    THEN <<[msg |-> "User must have at least one address", arg |-> <<>>]>>
  ELSE ZipViolations(as)

\* the rules with the name checked before the email
ViolationsNameFirst(userData, as) ==
  (IF Len(userData.name) < 3
   THEN <<[msg |-> "Name must be at least 3 characters", arg |-> <<>>]>>
   ELSE <<>>)
  \o (IF Includes(userData.email, "@") THEN <<>>
      ELSE <<[msg |-> "Email must contain @ symbol", arg |-> <<>>]>>)
  \o (IF Len(as) = 0
      THEN <<[msg |-> "User must have at least one address", arg |-> <<>>]>>
      ELSE <<>>)
  \o ZipViolations(as)

\* the violations array after the four rules have been evaluated
Violations(userData, as) ==
  (IF Includes(userData.email, "@") THEN <<>>
   ELSE <<[msg |-> "Email must contain @ symbol", arg |-> <<>>]>>)
  \o (IF Len(userData.name) < 3
      THEN <<[msg |-> "Name must be at least 3 characters", arg |-> <<>>]>>
      ELSE <<>>)
  \o (IF Len(as) = 0
      THEN <<[msg |-> "User must have at least one address", arg |-> <<>>]>>
      ELSE <<>>)
  \o ZipViolations(as)

BizBegin(p) ==
  /\ Free(p)
  /\ \E d \in UserData, as \in AddrLists :
       Start(p, [op |-> "biz", user |-> d, addresses |-> as], "b_check")

\* the method entered with any body the business-rules route lets through
RulesBegin(p) ==
  /\ pc[p] \in {"idle", "done"}
  /\ \A q \in Procs : q < p => pc[q] \notin {"idle", "done"}
  /\ ncalls < MaxRuleCalls
  /\ \E d \in RuleUserData, as \in RuleAddrLists :
       Start(p, [op |-> "biz", user |-> d, addresses |-> as], "b_check")

\* BizReject with the rollback left out
BizRejectNoRollback(p) ==
  /\ pc[p] = "b_check"
  /\ Len(Violations(call[p].user, call[p].addresses)) > 0
  /\ Return(p, [kind |-> "return", success |-> FALSE,
                violations |-> Violations(call[p].user, call[p].addresses)])
  /\ UNCHANGED <<users, addresses, tx, userSeq, addrSeq, call, local, ncalls>>

\* if (violations.length > 0) { await transaction.rollback(); return {...} }
BizReject(p) ==
  /\ pc[p] = "b_check"
  /\ Len(Violations(call[p].user, call[p].addresses)) > 0
  /\ Rollback(p)
  /\ Return(p, [kind |-> "return", success |-> FALSE,
                violations |-> Violations(call[p].user, call[p].addresses)])
  /\ UNCHANGED <<userSeq, addrSeq, call, local, ncalls>>

\* BizUser issued whatever the violations array holds
BizUserUnchecked(p) ==
  /\ pc[p] = "b_check"
  /\ UserCreate(p, call[p].user,
                IF Len(call[p].addresses) = 0 THEN "b_commit" ELSE "b_addr",
                "b_catch")
  /\ UNCHANGED <<users, addresses, addrSeq, call, outcome, ncalls>>

\* const user = await User.create({name, email}, {transaction})
BizUser(p) ==
  /\ pc[p] = "b_check"
  /\ Len(Violations(call[p].user, call[p].addresses)) = 0
  /\ UserCreate(p, call[p].user,
                IF Len(call[p].addresses) = 0 THEN "b_commit" ELSE "b_addr",
                "b_catch")
  /\ UNCHANGED <<users, addresses, addrSeq, call, outcome, ncalls>>

\* BizAddress leaving the loop after the first address
BizAddressOnlyFirst(p) ==
  /\ pc[p] = "b_addr"
  /\ LET i == Len(local[p].addresses) + 1
     IN AddressCreate(p, call[p].addresses[i], local[p].savedUser.id,
                      "b_commit", "b_catch")
  /\ UNCHANGED <<users, addresses, userSeq, call, outcome, ncalls>>

\* await Address.create({..., userId: user.id}, {transaction}), in the loop
BizAddress(p) ==
  /\ pc[p] = "b_addr"
  /\ LET i == Len(local[p].addresses) + 1
     IN AddressCreate(p, call[p].addresses[i], local[p].savedUser.id,
                      IF i = Len(call[p].addresses) THEN "b_commit" ELSE "b_addr",
                      "b_catch")
  /\ UNCHANGED <<users, addresses, userSeq, call, outcome, ncalls>>

\* await transaction.commit(); return {success: true, ...}
BizCommit(p) ==
  /\ pc[p] = "b_commit"
  /\ Commit(p)
  /\ Return(p, [kind |-> "return", success |-> TRUE])
  /\ UNCHANGED <<userSeq, addrSeq, call, local, ncalls>>

\* catch (error) { await transaction.rollback(); throw new Error(`...`) }
BizCatch(p) ==
  /\ pc[p] = "b_catch"
  /\ Rollback(p)
  /\ Return(p, [kind |-> "throw", error |-> BusinessRulePrefix \o local[p].error])
  /\ UNCHANGED <<userSeq, addrSeq, call, local, ncalls>>

\* ---------------------------------------- demonstrateForeignKeyConstraint
FkUserData(now) == [name |-> <<"FK Test User">>,
                    email |-> <<"fk_test_", now, "@", "example.com">>]

FkBegin(p) ==
  /\ Free(p)
  /\ \E now \in Times : Start(p, [op |-> "fk", now |-> now], "f_user")

\* const user = await User.create({name: 'FK Test User', email}, {transaction})
FkUser(p) ==
  /\ pc[p] = "f_user"
  /\ UserCreate(p, FkUserData(call[p].now), "f_valid", "f_catch")
  /\ UNCHANGED <<users, addresses, addrSeq, call, outcome, ncalls>>

\* const validAddress = await Address.create({..., userId: user.id}, {transaction})
FkValid(p) ==
  /\ pc[p] = "f_valid"
  /\ AddressCreate(p, [zipCode |-> ZipGood], local[p].savedUser.id,
                   "f_invalid", "f_catch")
  /\ UNCHANGED <<users, addresses, userSeq, call, outcome, ncalls>>

\* try { await Address.create({..., userId: 99999}, {transaction});
\*       invalidAddressResult = {success: true} }
\* catch { invalidAddressResult = {success: false} }
FkInvalid(p) ==
  /\ pc[p] = "f_invalid"
  /\ LET row == [id |-> addrSeq + 1, userId |-> InvalidUserId,
                 zipCode |-> <<"5", "4", "3", "2", "1">>]
     IN \/ /\ ~UserIdResolves(tx[p], InvalidUserId)
           /\ tx' = [tx EXCEPT ![p].aborted = TRUE]
           /\ local' = [local EXCEPT ![p].invalid = FALSE]
        \/ /\ tx' = [tx EXCEPT ![p].aborted = TRUE]
           /\ local' = [local EXCEPT ![p].invalid = FALSE]
        \/ /\ UserIdResolves(tx[p], InvalidUserId)
           /\ tx' = [tx EXCEPT ![p].insA = @ \cup {row}]
           /\ local' = [local EXCEPT ![p].invalid = TRUE]
  /\ addrSeq' = addrSeq + 1
  /\ pc' = [pc EXCEPT ![p] = "f_commit"]
  /\ UNCHANGED <<users, addresses, userSeq, call, outcome, ncalls>>

\* await transaction.commit(); return {validAddress, invalidAddress}
FkCommit(p) ==
  /\ pc[p] = "f_commit"
  /\ Commit(p)
  /\ Return(p, [kind |-> "return",
                validAddress |-> [success |-> TRUE,
                                  addressId |-> local[p].addresses[1].id],
                invalidAddress |-> [success |-> local[p].invalid]])
  /\ UNCHANGED <<userSeq, addrSeq, call, local, ncalls>>

\* catch (error) { await transaction.rollback(); throw error; }
FkCatch(p) ==
  /\ pc[p] = "f_catch"
  /\ Rollback(p)
  /\ Return(p, [kind |-> "throw", error |-> local[p].error])
  /\ UNCHANGED <<userSeq, addrSeq, call, local, ncalls>>

\* ------------------------------------------------ demonstrateCascadeDelete
CascadeUserData(now) == [name |-> <<"Cascade Test User">>,
                         email |-> <<"cascade_", now, "@", "example.com">>]

CascadeAddrs == <<[zipCode |-> <<"1", "2", "3", "4", "5">>],
                  [zipCode |-> <<"5", "4", "3", "2", "1">>]>>

CascadeBegin(p) ==
  /\ Free(p)
  /\ \E now \in Times :
       Start(p, [op |-> "cascade", now |-> now], "k_user")

\* const user = await User.create({name: 'Cascade Test User', email}, {transaction})
CascadeUser(p) ==
  /\ pc[p] = "k_user"
  /\ UserCreate(p, CascadeUserData(call[p].now), "k_addr", "k_catch")
  /\ UNCHANGED <<users, addresses, addrSeq, call, outcome, ncalls>>

\* the two await Address.create({..., userId: user.id}, {transaction})
CascadeAddress(p) ==
  /\ pc[p] = "k_addr"
  /\ LET i == Len(local[p].addresses) + 1
     IN AddressCreate(p, CascadeAddrs[i], local[p].savedUser.id,
                      IF i = Len(CascadeAddrs) THEN "k_commit" ELSE "k_addr",
                      "k_catch")
  /\ UNCHANGED <<users, addresses, userSeq, call, outcome, ncalls>>

\* await transaction.commit()
CascadeCommit(p) ==
  /\ pc[p] = "k_commit"
  /\ Commit(p)
  /\ pc' = [pc EXCEPT ![p] = "k_before"]
  /\ UNCHANGED <<userSeq, addrSeq, call, local, outcome, ncalls>>

\* const addressesBefore = await Address.count({where: {userId: user.id}})
CascadeCountBefore(p) ==
  /\ pc[p] = "k_before"
  /\ \/ Throw(p, StoreError, "k_catch")
     \/ /\ local' = [local EXCEPT ![p].before =
             Cardinality({a \in addresses : a.userId = local[p].savedUser.id})]
        /\ pc' = [pc EXCEPT ![p] = "k_destroy"]
  /\ UNCHANGED <<users, addresses, userSeq, addrSeq, tx, call, outcome, ncalls>>

\* await User.destroy({where: {id: user.id}}), a statement of its own
CascadeDestroy(p) ==
  /\ pc[p] = "k_destroy"
  /\ \/ /\ Throw(p, StoreError, "k_catch")
        /\ UNCHANGED <<users, addresses>>
     \/ /\ ~DestroyUserBlocked(p, TxBegin, local[p].savedUser.id)
        /\ users' = CommittedUsers(DestroyUser(TxBegin, local[p].savedUser.id))
        /\ addresses' = CommittedAddrs(DestroyUser(TxBegin, local[p].savedUser.id))
        /\ pc' = [pc EXCEPT ![p] = "k_after"]
        /\ UNCHANGED local
  /\ UNCHANGED <<userSeq, addrSeq, tx, call, outcome, ncalls>>

\* const addressesAfter = await Address.count({where: {userId: user.id}})
CascadeCountAfter(p) ==
  /\ pc[p] = "k_after"
  /\ \/ Throw(p, StoreError, "k_catch")
     \/ /\ local' = [local EXCEPT ![p].after =
             Cardinality({a \in addresses : a.userId = local[p].savedUser.id})]
        /\ pc' = [pc EXCEPT ![p] = "k_exists"]
  /\ UNCHANGED <<users, addresses, userSeq, addrSeq, tx, call, outcome, ncalls>>

\* const userExists = await User.findByPk(user.id); return {...}
CascadeExists(p) ==
  /\ pc[p] = "k_exists"
  /\ \/ /\ Throw(p, StoreError, "k_catch")
        /\ UNCHANGED outcome
     \/ /\ Return(p, [kind |-> "return",
                      user |-> local[p].savedUser.id,
                      addressesBefore |-> local[p].before,
                      addressesAfter |-> local[p].after,
                      userDeleted |-> ~\E u \in users : u.id = local[p].savedUser.id])
        /\ UNCHANGED local
  /\ UNCHANGED <<users, addresses, userSeq, addrSeq, tx, call, ncalls>>

\* catch (error) { await transaction.rollback(); throw error; }; rollback()
\* of a transaction that is finished throws instead
CascadeCatch(p) ==
  /\ pc[p] = "k_catch"
  /\ Rollback(p)
  /\ Return(p, [kind |-> "throw",
                error |-> IF tx[p].state = "open" THEN local[p].error
                          ELSE TxFinished])
  /\ UNCHANGED <<userSeq, addrSeq, call, local, ncalls>>

\* ---------------------------------------------------- getUserWithAddresses
\* a query that also returns the rows that open transactions have inserted
FindWithAddressesUncommitted(userId) ==
  LET us == users \cup UNION {tx[q].insU : q \in {r \in Procs : tx[r].state = "open"}}
      as == addresses \cup UNION {tx[q].insA : q \in {r \in Procs : tx[r].state = "open"}}
  IN [kind |-> "return",
      user |-> {u \in us : u.id = userId},
      addresses |-> {a \in as : a.userId = userId /\ \E u \in us : u.id = userId}]

\* User.findByPk(userId, {include: addresses}): one query outside any
\* transaction; the user row with its addresses, or null (no row)
FindWithAddresses(userId) ==
  [kind |-> "return",
   user |-> {u \in users : u.id = userId},
   addresses |-> {a \in addresses : a.userId = userId
                     /\ \E u \in users : u.id = userId}]

GetUserWithAddresses(p) ==
  /\ Free(p)
  /\ \E id \in UserIds :
       /\ Enter(p, [op |-> "get", userId |-> id], "done")
       /\ outcome' = [outcome EXCEPT ![p] = FindWithAddresses(id)]
  /\ tx' = [tx EXCEPT ![p] = NoTx]
  /\ UNCHANGED <<users, addresses, userSeq, addrSeq>>

\* the same call made again by a client that has a result already: it
\* takes the place of the earlier call of the client
GetUserWithAddressesAgain(p) ==
  /\ call[p].op = "get" /\ pc[p] = "done"
  /\ \A q \in Procs : q < p => pc[q] \notin {"idle", "done"}
  /\ ncalls < MaxCalls + MaxReads
  /\ ncalls' = ncalls + 1
  /\ \E id \in UserIds :
       /\ call' = [call EXCEPT ![p] = [op |-> "get", userId |-> id]]
       /\ outcome' = [outcome EXCEPT ![p] = FindWithAddresses(id)]
  /\ UNCHANGED <<users, addresses, userSeq, addrSeq, tx, pc, local>>

\* ------------------------------------------------ getAllUsersWithAddresses
\* return await User.findAll({include: addresses}): one query outside any
\* transaction; every user row with its addresses
GetAllUsersWithAddresses(p) ==
  /\ pc[p] \in {"idle", "done"}
  /\ \A q \in Procs : q < p => pc[q] \notin {"idle", "done"}
  /\ ncalls < MaxCalls + MaxReads
  /\ Enter(p, [op |-> "getAll"], "done")
  /\ outcome' = [outcome EXCEPT ![p] =
       [kind |-> "return",
        rows |-> {[user |-> u, addresses |-> {a \in addresses : a.userId = u.id}] :
                    u \in users}]]
  /\ tx' = [tx EXCEPT ![p] = NoTx]
  /\ UNCHANGED <<users, addresses, userSeq, addrSeq>>

\* ----------------------------------------- demonstrateTransactionConsistency
\* throw new Error('Simulated error to test transaction consistency')
SimulatedError == <<"Simulated error to test transaction consistency">>

\* one disjunct per statement of the method, in the order of the code; the
\* statements after the throw are never executed
demonstrateTransactionConsistency(p) ==
  \/ /\ Free(p)
     /\ \E now \in Times :
          Enter(p, [op |-> "transactionConsistency", now |-> now], "z_countU")
     /\ outcome' = [outcome EXCEPT ![p] = NoOutcome]
     /\ tx' = [tx EXCEPT ![p] = NoTx]
     /\ UNCHANGED <<users, addresses, userSeq, addrSeq>>
  \* const beforeUserCount = await User.count()
  \/ /\ pc[p] = "z_countU"
     /\ \/ /\ Return(p, [kind |-> "throw", error |-> StoreError])
           /\ UNCHANGED local
        \/ /\ local' = [local EXCEPT ![p].counts = Append(@, Cardinality(users))]
           /\ pc' = [pc EXCEPT ![p] = "z_countA"]
           /\ UNCHANGED outcome
     /\ UNCHANGED <<users, addresses, userSeq, addrSeq, tx, call, ncalls>>
  \* const beforeAddressCount = await Address.count()
  \/ /\ pc[p] = "z_countA"
     /\ \/ /\ Return(p, [kind |-> "throw", error |-> StoreError])
           /\ UNCHANGED local
        \/ /\ local' = [local EXCEPT ![p].counts = Append(@, Cardinality(addresses))]
           /\ pc' = [pc EXCEPT ![p] = "z_open"]
           /\ UNCHANGED outcome
     /\ UNCHANGED <<users, addresses, userSeq, addrSeq, tx, call, ncalls>>
  \* const transaction = await sequelize.transaction()
  \/ /\ pc[p] = "z_open"
     /\ tx' = [tx EXCEPT ![p] = TxBegin]
     /\ pc' = [pc EXCEPT ![p] = "z_user"]
     /\ UNCHANGED <<users, addresses, userSeq, addrSeq, call, local, outcome, ncalls>>
  \* const user = await User.create({name: 'Consistency Test User',
  \* email: `consistency_${Date.now()}@example.com`}, {transaction})
  \/ /\ pc[p] = "z_user"
     /\ UserCreate(p, [name |-> <<"Consistency Test User">>,
                       email |-> <<"consistency_", call[p].now, "@", "example.com">>],
                   "z_address", "z_catch")
     /\ UNCHANGED <<users, addresses, addrSeq, call, outcome, ncalls>>
  \* await Address.create({..., zipCode: '12345', userId: user.id},
  \* {transaction})
  \/ /\ pc[p] = "z_address"
     /\ AddressCreate(p, [zipCode |-> ZipGood], local[p].savedUser.id,
                      "z_throw", "z_catch")
     /\ UNCHANGED <<users, addresses, userSeq, call, outcome, ncalls>>
  \* throw new Error('Simulated error to test transaction consistency')
  \/ /\ pc[p] = "z_throw"
     /\ Throw(p, SimulatedError, "z_catch")
     /\ UNCHANGED <<users, addresses, userSeq, addrSeq, tx, call, outcome, ncalls>>
  \* catch (error) { await transaction.rollback()
  \/ /\ pc[p] = "z_catch"
     /\ Rollback(p)
     /\ pc' = [pc EXCEPT ![p] = "z_afterU"]
     /\ UNCHANGED <<userSeq, addrSeq, call, local, outcome, ncalls>>
  \* const afterUserCount = await User.count()
  \/ /\ pc[p] = "z_afterU"
     /\ \/ /\ Return(p, [kind |-> "throw", error |-> StoreError])
           /\ UNCHANGED local
        \/ /\ local' = [local EXCEPT ![p].counts = Append(@, Cardinality(users))]
           /\ pc' = [pc EXCEPT ![p] = "z_afterA"]
           /\ UNCHANGED outcome
     /\ UNCHANGED <<users, addresses, userSeq, addrSeq, tx, call, ncalls>>
  \* const afterAddressCount = await Address.count(); return {...,
  \* transactionSucceeded: false} }
  \/ /\ pc[p] = "z_afterA"
     /\ \/ Return(p, [kind |-> "throw", error |-> StoreError])
        \/ Return(p, [kind |-> "return",
                      beforeTransaction |-> [userCount |-> local[p].counts[1],
                                             addressCount |-> local[p].counts[2]],
                      afterTransaction |-> [userCount |-> local[p].counts[3],
                                            addressCount |-> Cardinality(addresses)],
                      transactionSucceeded |-> FALSE])
     /\ UNCHANGED <<users, addresses, userSeq, addrSeq, tx, call, local, ncalls>>

\* --------------------------------------------- demonstrateUniqueConstraint
\* const email = `unique_test_${Date.now()}@example.com`
UniqueEmail(now) == <<"unique_test_", now, "@", "example.com">>

UniqueFailed == <<"Failed to demonstrate unique constraint: ">>

\* User.create({name, email}) without a transaction: the statement commits
\* on its own
UserCreateAuto(p, d) ==
  /\ ~EmailTaken(NoTx, d.email)
  /\ ~EmailLocked(p, d.email)
  /\ users' = users \cup {[id |-> userSeq + 1, name |-> d.name, email |-> d.email]}
  /\ userSeq' = userSeq + 1

\* the same statement rejected by the store with error e
UserCreateAutoFails(p, d, e) ==
  \/ /\ e = UniqueViolation
     /\ EmailTaken(NoTx, d.email)
     /\ ~EmailLocked(p, d.email)
     /\ userSeq' = userSeq + 1
     /\ UNCHANGED users
  \/ /\ e = StoreError
     /\ UNCHANGED <<users, userSeq>>

UniqueBegin(p) ==
  /\ Free(p)
  /\ \E now \in Times :
       Enter(p, [op |-> "unique", email |-> UniqueEmail(now)], "u_first")
  /\ outcome' = [outcome EXCEPT ![p] = NoOutcome]
  /\ tx' = [tx EXCEPT ![p] = NoTx]
  /\ UNCHANGED <<users, addresses, userSeq, addrSeq>>

\* const user1 = await User.create({name: 'First User', email})
UniqueFirst(p) ==
  /\ pc[p] = "u_first"
  /\ LET d == [name |-> <<"First User">>, email |-> call[p].email]
     IN \/ /\ UserCreateAuto(p, d)
           /\ local' = [local EXCEPT ![p].savedUser =
                          [id |-> userSeq + 1, name |-> d.name, email |-> d.email]]
           /\ pc' = [pc EXCEPT ![p] = "u_second"]
           /\ UNCHANGED outcome
        \/ \E e \in {UniqueViolation, StoreError} :
              /\ UserCreateAutoFails(p, d, e)
              /\ Return(p, [kind |-> "throw", error |-> UniqueFailed \o e])
              /\ UNCHANGED local
  /\ UNCHANGED <<addresses, addrSeq, tx, call, ncalls>>

\* const user2 = await User.create({name: 'Second User', email}) in the
\* inner try, and the two returns
UniqueSecond(p) ==
  /\ pc[p] = "u_second"
  /\ LET d == [name |-> <<"Second User">>, email |-> call[p].email]
         first == [success |-> TRUE, userId |-> local[p].savedUser.id]
     IN \/ /\ UserCreateAuto(p, d)
           /\ Return(p, [kind |-> "return", firstUser |-> first,
                         secondUser |-> [success |-> TRUE,
                                         error |-> <<"Should have failed!">>]])
        \/ \E e \in {UniqueViolation, StoreError} :
              /\ UserCreateAutoFails(p, d, e)
              /\ Return(p, [kind |-> "return", firstUser |-> first,
                            secondUser |-> [success |-> FALSE, error |-> e]])
  /\ UNCHANGED <<addresses, addrSeq, tx, call, local, ncalls>>

\* ---------------------------------------------- demonstrateCheckConstraint
\* email: `valid_${Date.now()}@example.com`
ValidEmail(now) == <<"valid_", now, "@", "example.com">>

\* email: 'invalid-email-format'
InvalidEmailFormat == <<"invalid-email-format">>

CheckFailed == <<"Failed to demonstrate check constraint: ">>

CheckBegin(p) ==
  /\ Free(p)
  /\ \E now \in Times :
       Enter(p, [op |-> "check", email |-> ValidEmail(now)], "k_valid")
  /\ outcome' = [outcome EXCEPT ![p] = NoOutcome]
  /\ tx' = [tx EXCEPT ![p] = NoTx]
  /\ UNCHANGED <<users, addresses, userSeq, addrSeq>>

\* const validUser = await User.create({name: 'Valid Email User', email})
CheckValid(p) ==
  /\ pc[p] = "k_valid"
  /\ LET d == [name |-> <<"Valid Email User">>, email |-> call[p].email]
     IN \/ /\ UserCreateAuto(p, d)
           /\ local' = [local EXCEPT ![p].savedUser =
                          [id |-> userSeq + 1, name |-> d.name, email |-> d.email]]
           /\ pc' = [pc EXCEPT ![p] = "k_invalid"]
           /\ UNCHANGED outcome
        \/ \E e \in {UniqueViolation, StoreError} :
              /\ UserCreateAutoFails(p, d, e)
              /\ Return(p, [kind |-> "throw", error |-> CheckFailed \o e])
              /\ UNCHANGED local
  /\ UNCHANGED <<addresses, addrSeq, tx, call, ncalls>>

\* await User.create({name: 'Invalid Email User', email:
\* 'invalid-email-format'}) in the inner try, and the return
CheckInvalid(p) ==
  /\ pc[p] = "k_invalid"
  /\ LET d == [name |-> <<"Invalid Email User">>, email |-> InvalidEmailFormat]
         valid == [success |-> TRUE, userId |-> local[p].savedUser.id]
     IN \/ /\ UserCreateAuto(p, d)
           /\ Return(p, [kind |-> "return", validEmail |-> valid,
                         invalidEmail |-> [success |-> TRUE,
                             error |-> <<"Should have failed validation!">>]])
        \/ \E e \in {UniqueViolation, StoreError} :
              /\ UserCreateAutoFails(p, d, e)
              /\ Return(p, [kind |-> "return", validEmail |-> valid,
                            invalidEmail |-> [success |-> FALSE,
                                error |-> <<"Email validation would fail in production with custom validator">>]])
  /\ UNCHANGED <<addresses, addrSeq, tx, call, local, ncalls>>

\* ------------------------------------------------------- IsolationService
\* reading .name of the null that findByPk returned
NullName == <<"Cannot read properties of null (reading 'name')">>

\* an update in a snapshot transaction of a row that was changed or deleted
\* by a transaction that committed after the snapshot
SerializationFailure == <<"could not serialize access due to concurrent update">>

\* const transaction1 = await sequelize.transaction({isolationLevel})
IsoOpenA(p, c, level, next) ==
  /\ Free(p)
  /\ Enter(p, c, next)
  /\ outcome' = [outcome EXCEPT ![p] = NoOutcome]
  /\ tx' = [tx EXCEPT ![p] = TxBeginAt(level), ![TxB(p)] = NoTx]
  /\ UNCHANGED <<users, addresses, userSeq, addrSeq>>

\* const transaction2 = await sequelize.transaction({isolationLevel})
IsoOpenB(p, level, next) ==
  /\ tx' = [tx EXCEPT ![TxB(p)] = TxBeginAt(level)]
  /\ pc' = [pc EXCEPT ![p] = next]
  /\ UNCHANGED <<users, addresses, userSeq, addrSeq, call, local, outcome, ncalls>>

\* a statement of transaction tx[i] of call p was rejected with error e
FailIn(p, i, e, next) ==
  /\ tx' = [tx EXCEPT ![i].aborted = TRUE]
  /\ local' = [local EXCEPT ![p].error = e]
  /\ pc' = [pc EXCEPT ![p] = next]

\* const user = await User.findByPk(userId, {transaction}) in tx[i],
\* followed by the use of the row: its name is kept, and a null row makes
\* the code throw nullError
IsoFind(p, i, nullError, okpc, errpc) ==
  /\ \/ FailIn(p, i, StoreError, errpc)
     \/ /\ FindByPk(Snap(tx[i]), call[p].userId) = {}
        /\ tx' = [tx EXCEPT ![i] = Snap(@)]
        /\ local' = [local EXCEPT ![p].error = nullError]
        /\ pc' = [pc EXCEPT ![p] = errpc]
     \/ /\ FindByPk(Snap(tx[i]), call[p].userId) # {}
        /\ tx' = [tx EXCEPT ![i] = Snap(@)]
        /\ local' = [local EXCEPT ![p].reads =
             Append(@, (CHOOSE u \in FindByPk(Snap(tx[i]), call[p].userId) : TRUE).name)]
        /\ pc' = [pc EXCEPT ![p] = okpc]
  /\ UNCHANGED <<users, addresses, userSeq, addrSeq, call, outcome, ncalls>>

\* the row of users was changed or deleted by a transaction that committed
\* after the snapshot of t was taken
ChangedSinceSnapshot(t, userId) ==
  /\ t.snapped
  /\ {u \in t.snapU : u.id = userId} # {}
  /\ {u \in users : u.id = userId} # {u \in t.snapU : u.id = userId}

\* UPDATE users SET name WHERE id = userId, inside transaction t
UpdateName(t, userId, name) ==
  IF FindByPk(t, userId) = {} THEN t
  ELSE [t EXCEPT !.updU = {w \in @ : w.id # userId}
                           \cup {[id |-> userId, name |-> name]}]

\* await User.update({name}, {where: {id: userId}, transaction}) in tx[i];
\* the statement waits while another open transaction holds the row
IsoUpdate(p, i, name, okpc, errpc) ==
  /\ \/ FailIn(p, i, StoreError, errpc)
     \/ /\ ~UserLocked(i, call[p].userId)
        /\ ChangedSinceSnapshot(Snap(tx[i]), call[p].userId)
        /\ FailIn(p, i, SerializationFailure, errpc)
     \/ /\ ~UserLocked(i, call[p].userId)
        /\ ~ChangedSinceSnapshot(Snap(tx[i]), call[p].userId)
        /\ tx' = [tx EXCEPT ![i] = UpdateName(Snap(@), call[p].userId, name)]
        /\ pc' = [pc EXCEPT ![p] = okpc]
        /\ UNCHANGED local
  /\ UNCHANGED <<users, addresses, userSeq, addrSeq, call, outcome, ncalls>>

\* a commit that discards the writes
IsoCommitDiscards(p, i, next) ==
  /\ Rollback(i)
  /\ pc' = [pc EXCEPT ![p] = next]
  /\ UNCHANGED <<userSeq, addrSeq, call, local, outcome, ncalls>>

\* await transaction.commit() of tx[i], on the way to the next statement
IsoCommit(p, i, next) ==
  /\ Commit(i)
  /\ pc' = [pc EXCEPT ![p] = next]
  /\ UNCHANGED <<userSeq, addrSeq, call, local, outcome, ncalls>>

\* await transaction.rollback() of tx[i], on the way to the next statement
IsoRollback(p, i, next) ==
  /\ Rollback(i)
  /\ pc' = [pc EXCEPT ![p] = next]
  /\ UNCHANGED <<userSeq, addrSeq, call, local, outcome, ncalls>>

\* catch (error) { await transaction1.rollback(); throw error }: the
\* rollback of a finished transaction throws in place of error
IsoCatchA(p) ==
  /\ Rollback(p)
  /\ Return(p, [kind |-> "throw",
                error |-> IF tx[p].state = "open" THEN local[p].error ELSE TxFinished])
  /\ UNCHANGED <<userSeq, addrSeq, call, local, ncalls>>

\* catch (error) { await transaction1.rollback(); await
\* transaction2.rollback(); throw error }, first rollback
IsoCatchFirst(p, next) ==
  /\ Rollback(p)
  /\ IF tx[p].state = "open"
       THEN /\ pc' = [pc EXCEPT ![p] = next]
            /\ UNCHANGED outcome
       ELSE Return(p, [kind |-> "throw", error |-> TxFinished])
  /\ UNCHANGED <<userSeq, addrSeq, call, local, ncalls>>

\* the throw without the rollback of transaction2
IsoCatchSecondNoRollback(p) ==
  /\ Return(p, [kind |-> "throw", error |-> local[p].error])
  /\ UNCHANGED <<users, addresses, tx, userSeq, addrSeq, call, local, ncalls>>

\* the second rollback of the same catch block, and the throw
IsoCatchSecond(p) ==
  /\ Rollback(TxB(p))
  /\ Return(p, [kind |-> "throw",
                error |-> IF tx[TxB(p)].state = "open" THEN local[p].error ELSE TxFinished])
  /\ UNCHANGED <<userSeq, addrSeq, call, local, ncalls>>

\* the two rollbacks in the other order
DirtyRollbackBFirst(p) ==
  /\ pc[p] = "y_rollbackA"
  /\ IsoRollback(p, TxB(p), "y_rollbackB")

\* await transaction1.rollback()
DirtyRollbackA(p) ==
  /\ pc[p] = "y_rollbackA"
  /\ IsoRollback(p, p, "y_rollbackB")

\* --------------------------------------------------- demonstrateDirtyRead
\* one disjunct per statement of the script, in the order of the code
demonstrateDirtyRead(p) ==
  \/ /\ pc[p] \in {"idle", "done"}
     /\ \E id \in UserIds :
          IsoOpenA(p, [op |-> "dirtyRead", userId |-> id], "read", "y_find")
  \* const user = await User.findByPk(userId, {transaction: transaction1});
  \* if (!user) throw new Error('User not found')
  \/ /\ pc[p] = "y_find"
     /\ IsoFind(p, p, UserNotFound, "y_update", "y_catch")
  \* await User.update({name: `${user.name}_UPDATED`}, ...) in transaction1
  \/ /\ pc[p] = "y_update"
     /\ IsoUpdate(p, p, local[p].reads[1] \o <<"_UPDATED">>, "y_again", "y_catch")
  \* const updatedUser = await User.findByPk(...); updatedUser!.name
  \/ /\ pc[p] = "y_again"
     /\ IsoFind(p, p, NullName, "y_openB", "y_catch")
  \/ /\ pc[p] = "y_openB"
     /\ IsoOpenB(p, "read", "y_findB")
  \* const userInT2 = await User.findByPk(userId, {transaction:
  \* transaction2}); userInT2!.name
  \/ /\ pc[p] = "y_findB"
     /\ IsoFind(p, TxB(p), NullName, "y_rollbackA", "y_catch")
  \* await transaction1.rollback()
  \/ DirtyRollbackA(p)
  \* await transaction2.rollback(); return {...}
  \/ /\ pc[p] = "y_rollbackB"
     /\ Rollback(TxB(p))
     /\ Return(p, [kind |-> "return",
                   transaction1 |-> [before |-> local[p].reads[1],
                                     after |-> local[p].reads[2]],
                   transaction2 |-> [readValue |-> local[p].reads[3]]])
     /\ UNCHANGED <<userSeq, addrSeq, call, local, ncalls>>
  \/ /\ pc[p] = "y_catch"
     /\ IsoCatchA(p)

\* ----------------------------------------------- demonstrateReadCommitted
\* one disjunct per statement of the script, in the order of the code
demonstrateReadCommitted(p) ==
  \/ /\ pc[p] \in {"idle", "done"}
     /\ \E id \in UserIds :
          IsoOpenA(p, [op |-> "readCommitted", userId |-> id], "read", "r_find")
  \/ /\ pc[p] = "r_find"
     /\ IsoFind(p, p, UserNotFound, "r_update", "r_catch")
  \/ /\ pc[p] = "r_update"
     /\ IsoUpdate(p, p, local[p].reads[1] \o <<"_UPDATED">>, "r_again", "r_catch")
  \/ /\ pc[p] = "r_again"
     /\ IsoFind(p, p, NullName, "r_openB", "r_catch")
  \/ /\ pc[p] = "r_openB"
     /\ IsoOpenB(p, "read", "r_findB")
  \* const userInT2Before = await User.findByPk(...transaction2)
  \/ /\ pc[p] = "r_findB"
     /\ IsoFind(p, TxB(p), NullName, "r_commitA", "r_catch")
  \* await transaction1.commit()
  \/ /\ pc[p] = "r_commitA"
     /\ IsoCommit(p, p, "r_findB2")
  \* const userInT2After = await User.findByPk(...transaction2)
  \/ /\ pc[p] = "r_findB2"
     /\ IsoFind(p, TxB(p), NullName, "r_rollbackB", "r_catch")
  \* await transaction2.rollback(); return {...}
  \/ /\ pc[p] = "r_rollbackB"
     /\ Rollback(TxB(p))
     /\ Return(p, [kind |-> "return",
                   transaction1 |-> [before |-> local[p].reads[1],
                                     after |-> local[p].reads[2]],
                   transaction2 |-> [readValue |-> local[p].reads[3],
                                     readAfterCommit |-> local[p].reads[4]]])
     /\ UNCHANGED <<userSeq, addrSeq, call, local, ncalls>>
  \/ /\ pc[p] = "r_catch"
     /\ IsoCatchA(p)

\* ---------------------------------------------- demonstrateRepeatableRead
\* one disjunct per statement of the script, in the order of the code
demonstrateRepeatableRead(p) ==
  \/ /\ pc[p] \in {"idle", "done"}
     /\ \E id \in UserIds :
          IsoOpenA(p, [op |-> "repeatableRead", userId |-> id], "snapshot", "t_openB")
  \/ /\ pc[p] = "t_openB"
     /\ IsoOpenB(p, "snapshot", "t_find")
  \* const user1 = await User.findByPk(...transaction1); user1!.name
  \/ /\ pc[p] = "t_find"
     /\ IsoFind(p, p, NullName, "t_update", "t_catch")
  \* await User.update({name: `${user1!.name}_UPDATED_BY_T2`}, ...) in
  \* transaction2
  \/ /\ pc[p] = "t_update"
     /\ IsoUpdate(p, TxB(p), local[p].reads[1] \o <<"_UPDATED_BY_T2">>,
                  "t_commitB", "t_catch")
  \* await transaction2.commit()
  \/ /\ pc[p] = "t_commitB"
     /\ IsoCommit(p, TxB(p), "t_second")
  \/ /\ pc[p] = "t_second"
     /\ IsoFind(p, p, NullName, "t_third", "t_catch")
  \/ /\ pc[p] = "t_third"
     /\ IsoFind(p, p, NullName, "t_rollbackA", "t_catch")
  \* await transaction1.rollback(); return {...}
  \/ /\ pc[p] = "t_rollbackA"
     /\ Rollback(p)
     /\ Return(p, [kind |-> "return",
                   transaction1 |-> [read1 |-> local[p].reads[1],
                                     read2 |-> local[p].reads[2],
                                     read3 |-> local[p].reads[3]],
                   transaction2 |-> [updated |-> TRUE]])
     /\ UNCHANGED <<userSeq, addrSeq, call, local, ncalls>>
  \/ /\ pc[p] = "t_catch"
     /\ IsoCatchFirst(p, "t_catchB")
  \/ /\ pc[p] = "t_catchB"
     /\ IsoCatchSecond(p)

\* ------------------------------------------------ demonstrateSerializable
\* one disjunct per statement of the script, in the order of the code
demonstrateSerializable(p) ==
  \/ /\ pc[p] \in {"idle", "done"}
     /\ \E id \in UserIds :
          IsoOpenA(p, [op |-> "serializable", userId |-> id], "snapshot", "s_openB")
  \/ /\ pc[p] = "s_openB"
     /\ IsoOpenB(p, "snapshot", "s_findA")
  \* const user1 = await User.findByPk(...transaction1);
  \* if (!user1) throw new Error('User not found')
  \/ /\ pc[p] = "s_findA"
     /\ IsoFind(p, p, UserNotFound, "s_findB", "s_catch")
  \* const user2 = await User.findByPk(...transaction2);
  \* if (!user2) throw new Error('User not found')
  \/ /\ pc[p] = "s_findB"
     /\ IsoFind(p, TxB(p), UserNotFound, "s_updateA", "s_catch")
  \* await User.update({name: `${user1.name}_T1`}, ...) in transaction1
  \/ /\ pc[p] = "s_updateA"
     /\ IsoUpdate(p, p, local[p].reads[1] \o <<"_T1">>, "s_updateB", "s_catch")
  \* inner try: await User.update({name: `${user2.name}_T2`}, ...) in
  \* transaction2
  \/ /\ pc[p] = "s_updateB"
     /\ IsoUpdate(p, TxB(p), local[p].reads[2] \o <<"_T2">>, "s_commit", "s_conflict")
  \* the end of the method.  After a rejected update: inner catch, await
  \* transaction2.rollback(); return {...}.  After an accepted update: await
  \* transaction2.commit(); await transaction1.commit(); return {...}
  \/ /\ \/ /\ pc[p] = "s_conflict"
           /\ Rollback(TxB(p))
           /\ Return(p, [kind |-> "return",
                         transaction1 |-> [status |-> "committed"],
                         transaction2 |-> [status |-> "rolled_back_due_to_serialization"]])
        \/ /\ pc[p] = "s_commit"
           /\ users' = CommittedUsers([tx[p] EXCEPT !.updU = tx[TxB(p)].updU \cup
                           {w \in @ : \A v \in tx[TxB(p)].updU : v.id # w.id}])
           /\ UNCHANGED addresses
           /\ tx' = [tx EXCEPT ![TxB(p)] = TxCommit(@), ![p] = TxCommit(@)]
           /\ Return(p, [kind |-> "return",
                         transaction1 |-> [status |-> "committed"],
                         transaction2 |-> [status |-> "committed"]])
     /\ UNCHANGED <<userSeq, addrSeq, call, local, ncalls>>
  \/ /\ pc[p] = "s_catch"
     /\ IsoCatchFirst(p, "s_catchB")
  \/ /\ pc[p] = "s_catchB"
     /\ IsoCatchSecond(p)

\* ------------------------------------------- demonstrateNonRepeatableRead
\* one disjunct per statement of the script, in the order of the code
demonstrateNonRepeatableRead(p) ==
  \/ /\ pc[p] \in {"idle", "done"}
     /\ \E id \in UserIds :
          IsoOpenA(p, [op |-> "nonRepeatableRead", userId |-> id], "read", "n_find")
  \* const user1 = await User.findByPk(...transaction1); user1!.name
  \/ /\ pc[p] = "n_find"
     /\ IsoFind(p, p, NullName, "n_openB", "n_catch")
  \/ /\ pc[p] = "n_openB"
     /\ IsoOpenB(p, "read", "n_update")
  \* await User.update({name: `${user1!.name}_UPDATED`}, ...) in transaction2
  \/ /\ pc[p] = "n_update"
     /\ IsoUpdate(p, TxB(p), local[p].reads[1] \o <<"_UPDATED">>,
                  "n_commitB", "n_catch")
  \/ /\ pc[p] = "n_commitB"
     /\ IsoCommit(p, TxB(p), "n_second")
  \/ /\ pc[p] = "n_second"
     /\ IsoFind(p, p, NullName, "n_rollbackA", "n_catch")
  \* await transaction1.rollback(); return {...}
  \/ /\ pc[p] = "n_rollbackA"
     /\ Rollback(p)
     /\ Return(p, [kind |-> "return",
                   transaction1 |-> [read1 |-> local[p].reads[1],
                                     read2 |-> local[p].reads[2]],
                   transaction2 |-> [updated |-> TRUE]])
     /\ UNCHANGED <<userSeq, addrSeq, call, local, ncalls>>
  \/ /\ pc[p] = "n_catch"
     /\ IsoCatchA(p)

\* ------------------------------------------------- demonstratePhantomRead
\* email: `phantom_${Date.now()}@example.com`
PhantomEmail(now) == <<"phantom_", now, "@", "example.com">>

\* one disjunct per statement of the script, in the order of the code
demonstratePhantomRead(p) ==
  \/ /\ pc[p] \in {"idle", "done"}
     /\ \E now \in Times :
          IsoOpenA(p, [op |-> "phantomRead", email |-> PhantomEmail(now)], "read", "p_count")
  \* const count1 = await User.count({transaction: transaction1})
  \/ /\ pc[p] = "p_count"
     /\ \/ FailIn(p, p, StoreError, "p_catch")
        \/ /\ local' = [local EXCEPT ![p].before = Cardinality(VisUsers(tx[p]))]
           /\ pc' = [pc EXCEPT ![p] = "p_openB"]
           /\ UNCHANGED tx
     /\ UNCHANGED <<users, addresses, userSeq, addrSeq, call, outcome, ncalls>>
  \/ /\ pc[p] = "p_openB"
     /\ IsoOpenB(p, "read", "p_create")
  \* await User.create({name: 'Phantom User', email}, {transaction:
  \* transaction2})
  \/ /\ pc[p] = "p_create"
     /\ \/ /\ EmailTaken(tx[TxB(p)], call[p].email)
           /\ ~EmailLocked(TxB(p), call[p].email)
           /\ FailIn(p, TxB(p), UniqueViolation, "p_catch")
           /\ userSeq' = userSeq + 1
        \/ /\ FailIn(p, TxB(p), StoreError, "p_catch")
           /\ UNCHANGED userSeq
        \/ /\ ~EmailTaken(tx[TxB(p)], call[p].email)
           /\ ~EmailLocked(TxB(p), call[p].email)
           /\ tx' = [tx EXCEPT ![TxB(p)].insU = @ \cup
                {[id |-> userSeq + 1, name |-> <<"Phantom User">>, email |-> call[p].email]}]
           /\ userSeq' = userSeq + 1
           /\ pc' = [pc EXCEPT ![p] = "p_commitB"]
           /\ UNCHANGED local
     /\ UNCHANGED <<users, addresses, addrSeq, call, outcome, ncalls>>
  \/ /\ pc[p] = "p_commitB"
     /\ IsoCommit(p, TxB(p), "p_second")
  \* const count2 = await User.count({transaction: transaction1})
  \/ /\ pc[p] = "p_second"
     /\ \/ FailIn(p, p, StoreError, "p_catch")
        \/ /\ local' = [local EXCEPT ![p].after = Cardinality(VisUsers(tx[p]))]
           /\ pc' = [pc EXCEPT ![p] = "p_rollbackA"]
           /\ UNCHANGED tx
     /\ UNCHANGED <<users, addresses, userSeq, addrSeq, call, outcome, ncalls>>
  \* await transaction1.rollback(); return {...}
  \/ /\ pc[p] = "p_rollbackA"
     /\ Rollback(p)
     /\ Return(p, [kind |-> "return",
                   transaction1 |-> [count1 |-> local[p].before,
                                     count2 |-> local[p].after],
                   transaction2 |-> [inserted |-> TRUE]])
     /\ UNCHANGED <<userSeq, addrSeq, call, local, ncalls>>
  \/ /\ pc[p] = "p_catch"
     /\ IsoCatchA(p)

\* -------------------------------------------------- demonstrateLostUpdate
\* the name read from a null row
NoName == <<>>

\* const user = await User.findByPk(userId, {transaction}) in tx[i], the
\* row not used yet
LostFind(p, i, okpc) ==
  /\ \/ FailIn(p, i, StoreError, "l_catch")
     \/ /\ local' = [local EXCEPT ![p].reads = Append(@,
             IF FindByPk(tx[i], call[p].userId) = {} THEN NoName
             ELSE (CHOOSE u \in FindByPk(tx[i], call[p].userId) : TRUE).name)]
        /\ pc' = [pc EXCEPT ![p] = okpc]
        /\ UNCHANGED tx
  /\ UNCHANGED <<users, addresses, userSeq, addrSeq, call, outcome, ncalls>>

\* one disjunct per statement of the script, in the order of the code
demonstrateLostUpdate(p) ==
  \/ /\ Free(p)
     /\ \E id \in UserIds : Enter(p, [op |-> "lostUpdate", userId |-> id], "l_check")
     /\ outcome' = [outcome EXCEPT ![p] = NoOutcome]
     /\ tx' = [tx EXCEPT ![p] = NoTx, ![TxB(p)] = NoTx]
     /\ UNCHANGED <<users, addresses, userSeq, addrSeq>>
  \* const user = await User.findByPk(userId);
  \* if (!user) throw new Error('User not found')
  \/ /\ pc[p] = "l_check"
     /\ \/ Return(p, [kind |-> "throw", error |-> StoreError])
        \/ /\ FindByPk(NoTx, call[p].userId) = {}
           /\ Return(p, [kind |-> "throw", error |-> UserNotFound])
        \/ /\ FindByPk(NoTx, call[p].userId) # {}
           /\ pc' = [pc EXCEPT ![p] = "l_openA"]
           /\ UNCHANGED outcome
     /\ UNCHANGED <<users, addresses, userSeq, addrSeq, tx, call, local, ncalls>>
  \/ /\ pc[p] = "l_openA"
     /\ tx' = [tx EXCEPT ![p] = TxBeginAt("read")]
     /\ pc' = [pc EXCEPT ![p] = "l_openB"]
     /\ UNCHANGED <<users, addresses, userSeq, addrSeq, call, local, outcome, ncalls>>
  \/ /\ pc[p] = "l_openB"
     /\ IsoOpenB(p, "read", "l_findA")
  \/ /\ pc[p] = "l_findA"
     /\ LostFind(p, p, "l_findB")
  \/ /\ pc[p] = "l_findB"
     /\ LostFind(p, TxB(p), "l_updateA")
  \* await User.update({name: `${user1!.name}_T1`}, ...) in transaction1
  \/ /\ pc[p] = "l_updateA"
     /\ IF local[p].reads[1] = NoName
          THEN /\ Throw(p, NullName, "l_catch")
               /\ UNCHANGED <<users, addresses, userSeq, addrSeq, tx, call, outcome, ncalls>>
          ELSE IsoUpdate(p, p, local[p].reads[1] \o <<"_T1">>, "l_updateB", "l_catch")
  \* await User.update({name: `${user2!.name}_T2`}, ...) in transaction2
  \/ /\ pc[p] = "l_updateB"
     /\ IF local[p].reads[2] = NoName
          THEN /\ Throw(p, NullName, "l_catch")
               /\ UNCHANGED <<users, addresses, userSeq, addrSeq, tx, call, outcome, ncalls>>
          ELSE IsoUpdate(p, TxB(p), local[p].reads[2] \o <<"_T2">>, "l_commitA", "l_catch")
  \/ /\ pc[p] = "l_commitA"
     /\ IsoCommit(p, p, "l_commitB")
  \/ /\ pc[p] = "l_commitB"
     /\ IsoCommit(p, TxB(p), "l_final")
  \* const finalUser = await User.findByPk(userId); finalUser!.name;
  \* return {...}
  \/ /\ pc[p] = "l_final"
     /\ \/ /\ Throw(p, StoreError, "l_catch")
           /\ UNCHANGED outcome
        \/ /\ FindByPk(NoTx, call[p].userId) = {}
           /\ Throw(p, NullName, "l_catch")
           /\ UNCHANGED outcome
        \/ /\ FindByPk(NoTx, call[p].userId) # {}
           /\ Return(p, [kind |-> "return",
                         transaction1 |-> [value |-> local[p].reads[1] \o <<"_T1">>],
                         transaction2 |-> [value |-> local[p].reads[2] \o <<"_T2">>],
                         final |-> [value |->
                            (CHOOSE u \in FindByPk(NoTx, call[p].userId) : TRUE).name]])
           /\ UNCHANGED local
     /\ UNCHANGED <<users, addresses, userSeq, addrSeq, tx, call, ncalls>>
  \/ /\ pc[p] = "l_catch"
     /\ IsoCatchFirst(p, "l_catchB")
  \/ /\ pc[p] = "l_catchB"
     /\ IsoCatchSecond(p)

Next ==
  \E p \in Procs :
     \/ CreateBegin(p)
     \/ CreateUser(p)
     \/ CreateAddress(p)
     \/ CreateFinish(p)
     \/ CreateCatch(p)
     \/ DeleteBegin(p)
     \/ DeleteFind(p)
     \/ DeleteAddresses(p)
     \/ DeleteUserRow(p)
     \/ DeleteCommit(p)
     \/ DeleteCatch(p)
     \/ GetUserWithAddresses(p)
     \/ BizBegin(p)
     \/ BizReject(p)
     \/ BizUser(p)
     \/ BizAddress(p)
     \/ BizCommit(p)
     \/ BizCatch(p)
     \/ FkBegin(p)
     \/ FkUser(p)
     \/ FkValid(p)
     \/ FkInvalid(p)
     \/ FkCommit(p)
     \/ FkCatch(p)
     \/ CascadeBegin(p)
     \/ CascadeUser(p)
     \/ CascadeAddress(p)
     \/ CascadeCommit(p)
     \/ CascadeCountBefore(p)
     \/ CascadeDestroy(p)
     \/ CascadeCountAfter(p)
     \/ CascadeExists(p)
     \/ CascadeCatch(p)

Spec == Init /\ [][Next]_vars

\* the operations that insert and delete users by email: the unique and
\* check constraint demonstrations next to createUserWithAddresses and
\* deleteUser
NextConstraints ==
  \E p \in Procs :
     \/ UniqueBegin(p)
     \/ UniqueFirst(p)
     \/ UniqueSecond(p)
     \/ CheckBegin(p)
     \/ CheckValid(p)
     \/ CheckInvalid(p)
     \/ CreateBegin(p)
     \/ CreateUser(p)
     \/ CreateAddress(p)
     \/ CreateFinish(p)
     \/ CreateCatch(p)
     \/ DeleteBegin(p)
     \/ DeleteFind(p)
     \/ DeleteAddresses(p)
     \/ DeleteUserRow(p)
     \/ DeleteCommit(p)
     \/ DeleteCatch(p)

SpecConstraints == Init /\ [][NextConstraints]_vars

\* no client holds the result of a read that it may repeat
NoReadHeld == \A q \in Procs : ~(call[q].op = "get" /\ pc[q] = "done")

\* reads repeated while no write is committed: the transactions of the
\* other calls write, fail and roll back at any time, and commit only
\* before the first read of a client
NextRead ==
  \E p \in Procs :
     \/ GetUserWithAddresses(p)
     \/ GetUserWithAddressesAgain(p)
     \/ CreateBegin(p)
     \/ CreateUser(p)
     \/ CreateAddress(p)
     \/ NoReadHeld /\ CreateFinish(p)
     \/ CreateCatch(p)
     \/ DeleteBegin(p)
     \/ DeleteFind(p)
     \/ DeleteAddresses(p)
     \/ DeleteUserRow(p)
     \/ NoReadHeld /\ DeleteCommit(p)
     \/ DeleteCatch(p)

SpecRead == Init /\ [][NextRead]_vars

\* the isolation demonstrations next to deleteUser calls
NextIsolation ==
  \E p \in Procs :
     \/ demonstrateDirtyRead(p)
     \/ demonstrateReadCommitted(p)
     \/ demonstrateRepeatableRead(p)
     \/ demonstrateSerializable(p)
     \/ demonstrateNonRepeatableRead(p)
     \/ demonstratePhantomRead(p)
     \/ demonstrateLostUpdate(p)
     \/ DeleteBegin(p)
     \/ DeleteFind(p)
     \/ DeleteAddresses(p)
     \/ DeleteUserRow(p)
     \/ DeleteCommit(p)
     \/ DeleteCatch(p)

SpecIsolation == Init /\ [][NextIsolation]_vars

\* a call that writes and fails next to calls that create, delete and read
NextObserved ==
  \E p \in Procs :
     \/ demonstrateTransactionConsistency(p)
     \/ GetUserWithAddresses(p)
     \/ GetAllUsersWithAddresses(p)
     \/ CreateBegin(p)
     \/ CreateUser(p)
     \/ CreateAddress(p)
     \/ CreateFinish(p)
     \/ CreateCatch(p)
     \/ DeleteBegin(p)
     \/ DeleteFind(p)
     \/ DeleteAddresses(p)
     \/ DeleteUserRow(p)
     \/ DeleteCommit(p)
     \/ DeleteCatch(p)

SpecObserved == Init /\ [][NextObserved]_vars

\* the validated workflow alone, called with valid and invalid data
NextRules ==
  \E p \in Procs :
     \/ RulesBegin(p)
     \/ BizReject(p)
     \/ BizUser(p)
     \/ BizAddress(p)
     \/ BizCommit(p)
     \/ BizCatch(p)

SpecRules == Init /\ [][NextRules]_vars

\* ---------------------------------------------------------------- claims
\* the step is taken by call p
Stepped(p) ==
  <<pc[p], call[p], local[p], tx[p], outcome[p]>>
    # <<pc'[p], call'[p], local'[p], tx'[p], outcome'[p]>>

Ended(p, op) == call[p].op = op /\ pc[p] = "done"

Threw(p) == outcome[p].kind = "throw"

Returned(p) == outcome[p].kind = "return"

\* C1: no step of a createUserWithAddresses call changes the committed users
\* or addresses table, except the step by which the call returns normally;
\* a call that fails, after any number of writes, leaves both tables as they
\* were and none of the rows it wrote is committed
C1_AtomicityStep ==
  \A p \in Procs :
     (call'[p].op = "create" /\ Stepped(p) /\ outcome'[p].kind # "return")
       => (users' = users /\ addresses' = addresses)

C1_NoRowOfFailedCall ==
  \A p \in Procs :
     (Ended(p, "create") /\ Threw(p))
       => /\ tx[p].state = "rolledback"
          /\ \A u \in users : u.id # local[p].savedUser.id
          /\ \A a \in addresses :
                \A i \in 1..Len(local[p].addresses) : a.id # local[p].addresses[i].id

C1_Atomicity == [][C1_AtomicityStep]_vars /\ []C1_NoRowOfFailedCall

\* a create call has failed at its second address insert, after the user
\* and the first address were written
C1_Witness ==
  \E p \in Procs :
     /\ Ended(p, "create") /\ Threw(p)
     /\ outcome[p].error = StoreError
     /\ Len(local[p].addresses) = 1
     /\ Len(call[p].addresses) = 2

\* C2: the step by which createUserWithAddresses returns normally for K
\* addresses commits its transaction and adds exactly the returned user row
\* and the K returned address rows to the committed tables; the returned
\* list has length K, its i-th row was made from the i-th input, and every
\* row carries the id of the returned user
C2_ReturnStep ==
  \A p \in Procs :
     (call'[p].op = "create" /\ Stepped(p) /\ outcome'[p].kind = "return")
       => LET r == outcome'[p]
              K == Len(call[p].addresses)
              rows == {r.addresses[i] : i \in 1..Len(r.addresses)}
          IN /\ tx'[p].state = "committed"
             /\ r.user \notin users
             /\ users' = users \cup {r.user}
             /\ r.user.name = call[p].user.name
             /\ r.user.email = call[p].user.email
             /\ rows \cap addresses = {}
             /\ addresses' = addresses \cup rows
             /\ Cardinality(rows) = K
             /\ Len(r.addresses) = K
             /\ \A i \in 1..Len(r.addresses) :
                   /\ r.addresses[i].zipCode = call[p].addresses[i].zipCode
                   /\ r.addresses[i].userId = r.user.id

C2_CommitOnSuccess == [][C2_ReturnStep]_vars

\* a create call with two addresses has returned and its rows are committed
C2_Witness ==
  \E p \in Procs :
     /\ Ended(p, "create") /\ Returned(p)
     /\ Len(outcome[p].addresses) = 2
     /\ outcome[p].user \in users
     /\ \A i \in 1..2 : outcome[p].addresses[i] \in addresses

\* the call has ended with its success result
Succeeded(p) ==
  /\ pc[p] = "done"
  /\ Returned(p)
  /\ \/ call[p].op = "create"
     \/ call[p].op = "delete" /\ outcome[p].value = TRUE
     \/ call[p].op = "biz" /\ outcome[p].success = TRUE

\* C3: createUserWithAddresses, deleteUser and
\* demonstrateBusinessRuleConsistency end with a success result only if the
\* transaction the call opened was committed
C3_SuccessOnlyAfterCommit ==
  \A p \in Procs :
     Succeeded(p) => tx[p].state = "committed" /\ tx[p].ends = <<"commit">>

\* a deleteUser call has returned true
C3_Witness ==
  \E p \in Procs : Succeeded(p) /\ call[p].op = "delete" /\ tx[p].delU # {}


C6_ForcedFailure ==
  \A p \in Procs :
     (call[p].op = "create" /\ call[p].shouldFail)
       => /\ "commit" \notin {tx[p].ends[i] : i \in 1..Len(tx[p].ends)}
          /\ \A u \in users : u.id # local[p].savedUser.id
          /\ \A a \in addresses :
                \A i \in 1..Len(local[p].addresses) : a.id # local[p].addresses[i].id
          /\ local[p].error = SimulatedFailure
               => /\ local[p].savedUser.id # 0
                  /\ Len(local[p].addresses) = Len(call[p].addresses)
                  /\ tx[p].insU = {local[p].savedUser}
                  /\ Cardinality(tx[p].insA) = Len(call[p].addresses)
          /\ pc[p] = "done"
               => /\ Threw(p)
                  /\ tx[p].state = "rolledback"

\* forced failures have ended for a request without addresses and for a
\* request with addresses
C6_Witness ==
  \E p, q \in Procs :
     /\ Ended(p, "create") /\ Ended(q, "create")
     /\ outcome[p].kind = "throw" /\ outcome[p].error = SimulatedFailure
     /\ outcome[q].kind = "throw" /\ outcome[q].error = SimulatedFailure
     /\ Len(call[p].addresses) = 0
     /\ Len(call[q].addresses) = MaxAddrs

UserRows(id) == {u \in users : u.id = id}

AddrRows(userId) == {a \in addresses : a.userId = userId}

\* C7: once deleteUser(id) has returned true, no user with that id and no
\* address with that userId is committed; once demonstrateCascadeDelete has
\* deleted its user, the same holds for that user and the call reports
\* addressesAfter = 0 and userDeleted = true
C7_CascadeDelete ==
  \A p \in Procs :
     /\ (Ended(p, "delete") /\ Returned(p))
          => /\ outcome[p].value = TRUE
             /\ UserRows(call[p].userId) = {}
             /\ AddrRows(call[p].userId) = {}
     /\ (call[p].op = "cascade" /\ pc[p] \in {"k_after", "k_exists"})
          => /\ UserRows(local[p].savedUser.id) = {}
             /\ AddrRows(local[p].savedUser.id) = {}
     /\ (Ended(p, "cascade") /\ Returned(p))
          => /\ outcome[p].addressesAfter = 0
             /\ outcome[p].userDeleted
             /\ UserRows(local[p].savedUser.id) = {}
             /\ AddrRows(local[p].savedUser.id) = {}

\* deleteUser has returned true for a user that had addresses, and a cascade
\* demonstration has returned after counting two addresses before its delete
C7_Witness ==
  \E p, q \in Procs :
     /\ Ended(p, "delete") /\ Returned(p) /\ tx[p].delA # {} /\ tx[p].delU # {}
     /\ Ended(q, "cascade") /\ Returned(q) /\ outcome[q].addressesBefore = 2

\* C8: a step of a deleteUser(id) call either leaves the committed user id
\* and its committed addresses as they are, or removes the user and all its
\* addresses together; no committed state holds one without the other on
\* account of the call
C8_DeleteStep ==
  \A p \in Procs :
     (call[p].op = "delete" /\ pc[p] # "done" /\ Stepped(p))
       => LET id == call[p].userId
          IN \/ /\ UserRows(id)' = UserRows(id)
                /\ AddrRows(id)' = AddrRows(id)
             \/ /\ UserRows(id)' = {}
                /\ AddrRows(id)' = {}

C8_DeleteIsOneStep == [][C8_DeleteStep]_vars

\* a deleteUser call has deleted the addresses and the user inside its
\* transaction, and the committed tables still hold the user with addresses
C8_Witness ==
  \E p \in Procs :
     /\ call[p].op = "delete" /\ pc[p] = "d_commit"
     /\ tx[p].delU # {} /\ tx[p].delA # {}
     /\ UserRows(call[p].userId) # {}
     /\ AddrRows(call[p].userId) # {}

\* C9: deleteUser(id) for an id that matches no user raises 'User not found'
\* (unless the lookup itself fails), issues no delete, has its transaction
\* rolled back and throws that error; no step of the call changes the tables
C9_NotFoundStep ==
  \A p \in Procs :
     /\ (call[p].op = "delete" /\ pc[p] = "d_find" /\ Stepped(p)
           /\ UserRows(call[p].userId) = {})
          => /\ pc'[p] = "d_catch"
             /\ local'[p].error \in {UserNotFound, StoreError}
     /\ (call'[p].op = "delete" /\ Stepped(p) /\ local'[p].error = UserNotFound)
          => (users' = users /\ addresses' = addresses)

C9_NotFoundState ==
  \A p \in Procs :
     (call[p].op = "delete" /\ local[p].error = UserNotFound)
       => /\ tx[p].delU = {} /\ tx[p].delA = {}
          /\ local[p].savedUser = NoUser
          /\ pc[p] \in {"d_catch", "done"}
          /\ pc[p] = "done"
               => /\ Threw(p)
                  /\ outcome[p].error = UserNotFound
                  /\ tx[p].state = "rolledback"
                  /\ tx[p].ends = <<"rollback">>

C9_DeleteNotFound == [][C9_NotFoundStep]_vars /\ []C9_NotFoundState

\* deleteUser has thrown 'User not found' while the tables hold rows
C9_Witness ==
  \E p \in Procs :
     /\ Ended(p, "delete") /\ Threw(p) /\ outcome[p].error = UserNotFound
     /\ users # {} /\ addresses # {}

\* C10: in every committed state, every address row's userId is the id of a
\* committed user row
C10_NoOrphanAddress ==
  \A a \in addresses : \E u \in users : u.id = a.userId

\* addresses are committed after a foreign-key demonstration has ended and
\* while a deleteUser call has deleted rows inside its open transaction
C10_Witness ==
  \E p, q \in Procs :
     /\ Ended(p, "fk") /\ Returned(p)
     /\ call[q].op = "delete" /\ pc[q] = "d_commit" /\ tx[q].delA # {}
     /\ addresses # {}

\* ------------------------------------------------------------------- C11
\* C11: no two committed user rows share an email; when the second
\* User.create of the unique constraint demonstration is issued while the
\* first user is still stored, it fails and exactly one user has that email
C11_SecondCreateStep ==
  \A p \in Procs :
     (/\ pc[p] = "u_second"
      /\ pc'[p] = "done"
      /\ local[p].savedUser \in users)
     => /\ outcome'[p].firstUser.success
        /\ ~outcome'[p].secondUser.success
        /\ Cardinality({u \in users' : u.email = call[p].email}) = 1

C11_EmailsDistinct ==
  \A u, v \in users : u.email = v.email => u = v

C11_UniqueEmail == [][C11_SecondCreateStep]_vars /\ []C11_EmailsDistinct

\* the demonstration has returned with the second insert rejected as a
\* duplicate, next to a committed user of createUserWithAddresses
C11_Witness ==
  \E p \in Procs :
     /\ Ended(p, "unique") /\ Returned(p)
     /\ outcome[p].secondUser.error = UniqueViolation
     /\ Cardinality({u \in users : u.email = call[p].email}) = 1
     /\ Cardinality(users) >= 2

\* ------------------------------------------------------------------- C12
\* a call of the validated workflow that returned the failure result
Rejected(p) == Ended(p, "biz") /\ Returned(p) /\ ~outcome[p].success

EmailMessage == [msg |-> "Email must contain @ symbol", arg |-> <<>>]
NameMessage == [msg |-> "Name must be at least 3 characters", arg |-> <<>>]
AddressMessage == [msg |-> "User must have at least one address", arg |-> <<>>]
ZipMessage(zip) == [msg |-> "Invalid zip code format: ", arg |-> zip]

\* the rule a message belongs to
RuleOf(m) ==
  IF m = EmailMessage THEN 1
  ELSE IF m = NameMessage THEN 2
  ELSE IF m = AddressMessage THEN 3
  ELSE IF m.msg = "Invalid zip code format: " THEN 4
  ELSE 0

Count(v, m) == Cardinality({i \in 1..Len(v) : v[i] = m})

FiveDigits(zip) ==
  /\ Len(zip) = 5
  /\ \A i \in 1..5 : zip[i] \in {"0", "1", "2", "3", "4", "5", "6", "7", "8", "9"}

IsOffending(a) == ~FiveDigits(a.zipCode)

IsZipMessage(m) == RuleOf(m) = 4

IsExample(p) ==
  /\ call[p].user = [name |-> NameShort, email |-> EmailNoAt]
  /\ call[p].addresses = <<[zipCode |-> ZipBad]>>

BreaksARule(p) ==
  \/ \A i \in 1..Len(call[p].user.email) : call[p].user.email[i] # "@"
  \/ Len(call[p].user.name) < 3
  \/ Len(call[p].addresses) = 0
  \/ \E i \in 1..Len(call[p].addresses) : IsOffending(call[p].addresses[i])

\* the call is at the rule check and ends in this step
C14_RejectStep ==
  \A p \in Procs :
     (/\ call[p].op = "biz" /\ BreaksARule(p)
      /\ pc[p] = "b_check" /\ pc'[p] = "done")
     => UNCHANGED <<users, addresses, userSeq, addrSeq>>

C14_RejectState ==
  \A p \in Procs :
     (call[p].op = "biz" /\ BreaksARule(p)) =>
        /\ pc[p] \in {"b_check", "done"}
        /\ tx[p].insU = {} /\ tx[p].insA = {}
        /\ tx[p].delU = {} /\ tx[p].delA = {}
        /\ pc[p] = "done" =>
              /\ Rejected(p)
              /\ Len(outcome[p].violations) > 0
              /\ tx[p].state = "rolledback"
              /\ tx[p].ends = <<"rollback">>

\* C14: a call of the validated workflow whose data breaks a rule issues no
\* write, rolls its transaction back and returns success=false with the
\* violations; the tables and sequences are as before the call
C14_RejectWithoutWrite == [][C14_RejectStep]_vars /\ []C14_RejectState

\* a rejected call next to stored rows
C14_Witness ==
  \E p \in Procs :
     /\ Rejected(p) /\ BreaksARule(p)
     /\ tx[p].state = "rolledback"
     /\ users # {} /\ addresses # {}

\* ------------------------------------------------------------------- C15
\* the call commits and returns in this step
C15_AcceptStep ==
  \A p \in Procs :
     (/\ call[p].op = "biz" /\ ~BreaksARule(p)
      /\ pc[p] = "b_commit" /\ pc'[p] = "done")
     => LET u == local[p].savedUser
            rows == local[p].addresses
        IN /\ u \notin users
           /\ users' = users \cup {u}
           /\ u.name = call[p].user.name /\ u.email = call[p].user.email
           /\ Len(rows) = Len(call[p].addresses)
           /\ \A i \in 1..Len(rows) :
                 /\ rows[i].userId = u.id
                 /\ rows[i].zipCode = call[p].addresses[i].zipCode
                 /\ rows[i] \notin addresses
                 /\ \A j \in 1..Len(rows) : rows[i].id = rows[j].id => i = j
           /\ addresses' = addresses \cup {rows[i] : i \in 1..Len(rows)}
           /\ outcome'[p].kind = "return"
           /\ outcome'[p].success
           /\ "violations" \notin DOMAIN outcome'[p]

C15_AcceptState ==
  \A p \in Procs :
     (Ended(p, "biz") /\ ~BreaksARule(p)) =>
        \/ /\ Returned(p)
           /\ outcome[p].success
           /\ "violations" \notin DOMAIN outcome[p]
           /\ tx[p].state = "committed"
           /\ tx[p].ends = <<"commit">>
        \/ /\ Threw(p)
           /\ tx[p].state = "rolledback"
           /\ local[p].error # NoError

C16_EveryEmailHasAt ==
  \A u \in users : \E i \in 1..Len(u.email) : u.email[i] = "@"

\* ------------------------------------------------------------------- C17
\* C17: the address rows that a successful call of the validated workflow
\* commits have a zip code of exactly five decimal digits and belong to the
\* user the call commits, whose name has at least three characters and
\* whose email contains '@'
C17_PersistStep ==
  \A p \in Procs :
     (/\ call[p].op = "biz"
      /\ pc[p] = "b_commit" /\ pc'[p] = "done"
      /\ outcome'[p].kind = "return" /\ outcome'[p].success)
     => \A a \in addresses' \ addresses :
           /\ FiveDigits(a.zipCode)
           /\ \E u \in users' \ users :
                 /\ u.id = a.userId
                 /\ Len(u.name) >= 3
                 /\ \E i \in 1..Len(u.email) : u.email[i] = "@"

C17_ValidRowsOnly == [][C17_PersistStep]_vars

\* a call has persisted addresses while another one, with a zip code of
\* five characters that are not all digits, was rejected
C17_Witness ==
  \E p, q \in Procs :
     /\ Ended(p, "biz") /\ Returned(p) /\ outcome[p].success
     /\ \E a \in addresses : a.userId = local[p].savedUser.id
     /\ Rejected(q)
     /\ \E i \in 1..Len(call[q].addresses) : call[q].addresses[i].zipCode = ZipAlpha

\* ------------------------------------------------------------------- C18
\* C18: a call of getUserWithAddresses changes no stored row, and a call
\* repeated for the same id while no write was committed returns the result
\* of the earlier call: the same user with the same addresses, or null
C18_ReadStep ==
  \A p \in Procs :
     (call'[p].op = "get" /\ Stepped(p)) =>
        /\ UNCHANGED <<users, addresses, userSeq, addrSeq>>
        /\ \A q \in Procs \ {p} : tx'[q] = tx[q]
        /\ (call[p].op = "get" /\ pc[p] = "done"
              /\ call'[p].userId = call[p].userId)
           => outcome'[p] = outcome[p]

IsoOps == {"dirtyRead", "readCommitted", "repeatableRead", "serializable",
           "nonRepeatableRead", "phantomRead", "lostUpdate"}

TxOpen(i) == tx[i].state = "open"

TxEnded(i) == tx[i].state \in {"committed", "rolledback"}

\* C19 as stated: when an isolation demonstration has returned or thrown,
\* neither of its two transactions is open
C19_NoTransactionLeftOpen ==
  \A p \in Procs :
     (call[p].op \in IsoOps /\ pc[p] = "done") =>
        ~TxOpen(p) /\ ~TxOpen(TxB(p))

\* ------------------------------------------------------------------- C20
\* the demonstrations that end transaction1 first, and those that commit
\* transaction2 while transaction1 is open
AFirstOps == {"dirtyRead", "readCommitted", "lostUpdate"}

BFirstOps == IsoOps \ AFirstOps

C20_OrderState ==
  \A p \in Procs :
     call[p].op \in IsoOps =>
        /\ tx[TxB(p)].state # "none" => tx[p].state # "none"
        /\ (call[p].op \in AFirstOps /\ TxEnded(TxB(p))) => TxEnded(p)
        /\ (pc[p] = "done" /\ Returned(p)) =>
              /\ TxEnded(TxB(p))
              /\ TxEnded(p) \/ call[p].op = "serializable"

C20_EndAStep ==
  \A p \in Procs :
     (/\ call[p].op \in BFirstOps
      /\ TxOpen(p) /\ tx'[p].state \in {"committed", "rolledback"}
      /\ outcome'[p].kind = "return")
     => tx[TxB(p)].state = "committed"

C21_DirtyReadSeesUpdate ==
  \A p \in Procs :
     (Ended(p, "dirtyRead") /\ Returned(p)) =>
        outcome[p].transaction2.readValue = outcome[p].transaction1.after

\* ------------------------------------------------------------------- C22
\* no other call has been started
OthersIdle(p) == \A q \in Procs \ {p} : pc[q] = "idle"

\* the committed name of the user of call p
CommittedName(p) == (CHOOSE u \in users : u.id = call[p].userId).name

\* C22 as stated: when a read committed demonstration has returned its
\* report, the name transaction2 read before the commit of transaction1 is
\* transaction1.before and not transaction1.after, and the name it read
\* after the commit is transaction1.after
C22_BeforeAndAfterCommit ==
  \A p \in Procs :
     (Ended(p, "readCommitted") /\ Returned(p)) =>
        /\ outcome[p].transaction2.readValue = outcome[p].transaction1.before
        /\ outcome[p].transaction2.readValue # outcome[p].transaction1.after
        /\ outcome[p].transaction2.readAfterCommit = outcome[p].transaction1.after

C22_ReadStep ==
  \A p \in Procs :
     call[p].op = "readCommitted" =>
        /\ (pc[p] = "r_findB" /\ pc'[p] = "r_commitA") =>
              /\ tx[p].state = "open"
              /\ \E w \in tx[p].updU : w.id = call[p].userId
              /\ local'[p].reads[3] = CommittedName(p)
        /\ (pc[p] = "r_findB2" /\ pc'[p] = "r_rollbackB") =>
              /\ tx[p].state = "committed"
              /\ local'[p].reads[4] = CommittedName(p)

C22_AloneState ==
  \A p \in Procs :
     (Ended(p, "readCommitted") /\ Returned(p) /\ OthersIdle(p)) =>
        /\ outcome[p].transaction2.readValue = outcome[p].transaction1.before
        /\ outcome[p].transaction2.readValue # outcome[p].transaction1.after
        /\ outcome[p].transaction2.readAfterCommit = outcome[p].transaction1.after

\* C22 amended: the read of transaction2 made while the update of
\* transaction1 is pending returns the name committed in the store at that
\* moment, and its read made after the commit of transaction1 returns the
\* name committed at that moment; when no other call is active these are
\* transaction1.before (not transaction1.after) and transaction1.after, on
\* every invocation, repeated ones on the same user included
C22_CommittedReads == [][C22_ReadStep]_vars /\ []C22_AloneState

\* the caller has run the demonstration again on a user it had renamed, with
\* no other call active
C22_Witness ==
  \E p \in Procs :
     /\ Ended(p, "readCommitted") /\ Returned(p) /\ OthersIdle(p)
     /\ Len(outcome[p].transaction1.before) > Len(NameLong)
     /\ outcome[p].transaction2.readAfterCommit = outcome[p].transaction1.after

\* ------------------------------------------------------------------- C23
C23_SecondReadStep ==
  \A p \in Procs :
     (call[p].op = "repeatableRead" /\ pc[p] = "t_second" /\ pc'[p] = "t_third") =>
        /\ tx[TxB(p)].state = "committed"
        /\ local'[p].reads[2] = local[p].reads[1]

C23_ReportState ==
  \A p \in Procs :
     (Ended(p, "repeatableRead") /\ Returned(p)) =>
        /\ outcome[p].transaction1.read1 = outcome[p].transaction1.read2
        /\ outcome[p].transaction1.read2 = outcome[p].transaction1.read3

\* C23: the three names a repeatable read demonstration reads in
\* transaction1 are equal, and the second one is read after transaction2 has
\* committed its update of that user
C23_RepeatableRead == [][C23_SecondReadStep]_vars /\ []C23_ReportState

\* the demonstration has returned, and the store holds the name that
\* transaction2 committed between the first and the second read
C23_Witness ==
  \E p \in Procs :
     /\ Ended(p, "repeatableRead") /\ Returned(p)
     /\ \E u \in users :
          /\ u.id = call[p].userId
          /\ u.name = outcome[p].transaction1.read1 \o <<"_UPDATED_BY_T2">>
     /\ outcome[p].transaction1.read3 = outcome[p].transaction1.read1

\* ------------------------------------------------------------------- C24
\* C24 as stated: the second count a phantom read demonstration reports is
\* greater than the first
C24_SecondCountGreater ==
  \A p \in Procs :
     (Ended(p, "phantomRead") /\ Returned(p)) =>
        outcome[p].transaction1.count2 > outcome[p].transaction1.count1

C24_CountStep ==
  \A p \in Procs :
     call[p].op = "phantomRead" =>
        /\ (pc[p] = "p_count" /\ pc'[p] = "p_openB") =>
              local'[p].before = Cardinality(users)
        /\ (pc[p] = "p_second" /\ pc'[p] = "p_rollbackA") =>
              /\ tx[TxB(p)].state = "committed"
              /\ local'[p].after = Cardinality(users)
        /\ (pc[p] = "p_rollbackA" /\ pc'[p] = "done") =>
              /\ outcome'[p].transaction1.count1 = local[p].before
              /\ outcome'[p].transaction1.count2 = local[p].after

C24_AloneState ==
  \A p \in Procs :
     (Ended(p, "phantomRead") /\ Returned(p) /\ OthersIdle(p)) =>
        outcome[p].transaction1.count2 = outcome[p].transaction1.count1 + 1

\* C24 amended: each count a phantom read demonstration reports is the
\* number of committed users at the moment transaction1 counted, the second
\* one taken after transaction2 committed its insert; the second count is
\* the first plus one when no other call is active, and it need not be
\* greater than the first when another call commits a delete in between
C24_CountsAsRead == [][C24_CountStep]_vars /\ []C24_AloneState

\* a demonstration that ran alone has reported its two counts, and the user
\* it inserted is stored
C24_Witness ==
  \E p \in Procs :
     /\ Ended(p, "phantomRead") /\ Returned(p) /\ OthersIdle(p)
     /\ outcome[p].transaction1.count2 = outcome[p].transaction1.count1 + 1
     /\ \E u \in users : u.email = call[p].email

\* ------------------------------------------------------------------- C25
\* C25: in a lost update demonstration the update of transaction2 is not
\* held back by the update transaction1 made and has not committed, so that
\* both write and both commit; the final value reported is the value that
\* transaction2, whose commit is the last, intended to write
C25_LastCommitWins ==
  \A p \in Procs :
     call[p].op = "lostUpdate" =>
        /\ (pc[p] = "l_updateB" /\ local[p].reads[2] # NoName) =>
              ~(TxOpen(p) /\ \E w \in tx[p].updU : w.id = call[p].userId)
        /\ (pc[p] = "done" /\ Returned(p)) =>
              /\ outcome[p].final.value = outcome[p].transaction2.value
              /\ tx[p].state = "committed" /\ tx[TxB(p)].state = "committed"

\* ------------------------------------------------------------------- C26
\* C26: when a serializable demonstration has returned its report, a
\* transaction reported as 'committed' was committed, and a transaction in
\* which the store rejected a statement is not reported as 'committed'
C26_StatusIsOutcome ==
  \A p \in Procs :
     (Ended(p, "serializable") /\ Returned(p)) =>
        /\ outcome[p].transaction1.status = "committed" =>
              tx[p].state = "committed" /\ ~tx[p].aborted
        /\ outcome[p].transaction2.status = "committed" =>
              tx[TxB(p)].state = "committed" /\ ~tx[TxB(p)].aborted

\* ------------------------------------------------------------------- C27
\* C27 as stated: no step of an isolation demonstration changes the stored
\* users, so that the rows and names after the call are those before it
C27_WritesRolledBackStep ==
  \A p \in Procs :
     (call[p].op \in IsoOps /\ pc'[p] # pc[p]) => users' = users

IsoCommitPcs == {"r_commitA", "t_commitB", "n_commitB", "p_commitB"}

IsoCommitted(p) == IF pc[p] = "r_commitA" THEN tx[p] ELSE tx[TxB(p)]

C27_PersistStep ==
  \A p \in Procs :
     (call[p].op \in IsoOps /\ pc'[p] # pc[p]) =>
        /\ users' # users => pc[p] \in IsoCommitPcs
        /\ pc[p] \in IsoCommitPcs =>
              /\ \A w \in IsoCommitted(p).updU :
                    \E u \in users' : u.id = w.id /\ u.name = w.name
              /\ IsoCommitted(p).insU \subseteq users'

ConstraintViolations == {UniqueViolation, NotNullViolation, ForeignKeyViolation}

\* C28: when a call has ended after the store rejected one of its writes
\* with a constraint violation, the transaction in which the write was
\* rejected is rolled back: it is neither committed nor still open.  The
\* call either threw the violation, or it is the foreign key demonstration,
\* which reports the violation in its result
C28_ViolationRollsBack ==
  \A p \in Procs :
     /\ (pc[p] = "done" /\ Threw(p) /\ outcome[p].error \in ConstraintViolations) =>
           \A i \in {p, TxB(p)} : tx[i].aborted => tx[i].state = "rolledback"
     /\ (Ended(p, "fk") /\ Returned(p) /\ ~outcome[p].invalidAddress.success) =>
           tx[p].state = "rolledback"

\* ------------------------------------------------------------------- C29
\* C29 as stated: every report of demonstrateTransactionConsistency has
\* transactionSucceeded = false and the same user count and address count
\* after the transaction as before it
C29_CountsUnchanged ==
  \A p \in Procs :
     (Ended(p, "transactionConsistency") /\ Returned(p)) =>
        /\ ~outcome[p].transactionSucceeded
        /\ outcome[p].afterTransaction.userCount = outcome[p].beforeTransaction.userCount
        /\ outcome[p].afterTransaction.addressCount =
              outcome[p].beforeTransaction.addressCount

C29_NothingPersistedStep ==
  \A p \in Procs :
     (call[p].op = "transactionConsistency" /\ pc'[p] # pc[p]) =>
        users' = users /\ addresses' = addresses

C29_ReportState ==
  \A p \in Procs :
     (Ended(p, "transactionConsistency") /\ Returned(p)) =>
        /\ ~outcome[p].transactionSucceeded
        /\ tx[p].state = "rolledback"
        /\ OthersIdle(p) =>
              /\ outcome[p].afterTransaction.userCount =
                    outcome[p].beforeTransaction.userCount
              /\ outcome[p].afterTransaction.addressCount =
                    outcome[p].beforeTransaction.addressCount

\* C29 amended: every report of demonstrateTransactionConsistency has
\* transactionSucceeded = false, its transaction is rolled back and no step
\* of the call changes the stored users or addresses, so the user and the
\* first address it wrote are not persisted; the counts reported after the
\* transaction equal those reported before it when no other call is
\* active, and differ when another call commits a create or a delete
\* between the two counts
C29_RolledBackAndReported == [][C29_NothingPersistedStep]_vars /\ []C29_ReportState

\* a call that ran alone wrote the user and the first address, met the
\* simulated error and reported equal counts
C29_Witness ==
  \E p \in Procs :
     /\ Ended(p, "transactionConsistency") /\ Returned(p) /\ OthersIdle(p)
     /\ local[p].error = SimulatedError
     /\ local[p].savedUser # NoUser /\ Len(local[p].addresses) = 1
     /\ outcome[p].afterTransaction = outcome[p].beforeTransaction

\* ------------------------------------------------------------------- C30
\* the user rows and address rows in the result of a read
SeenUsers(r) ==
  IF "rows" \in DOMAIN r THEN {x.user : x \in r.rows} ELSE r.user

SeenAddrs(r) ==
  IF "rows" \in DOMAIN r THEN UNION {x.addresses : x \in r.rows} ELSE r.addresses

\* the address rows written so far by the createUserWithAddresses call q
WrittenAddrs(q) == {local[q].addresses[i] : i \in 1..Len(local[q].addresses)}

\* call p reads in this step
ReadsNow(p) ==
  /\ call'[p].op \in {"get", "getAll"}
  /\ pc'[p] = "done"
  /\ ncalls' = ncalls + 1
  /\ \A q \in Procs \ {p} : pc'[q] = pc[q] /\ call'[q] = call[q]

C30_ReadStep ==
  \A p \in Procs : ReadsNow(p) =>
     \A q \in Procs \ {p} :
        (call[q].op = "create" /\ local[q].savedUser # NoUser) =>
           LET user == local[q].savedUser
               seen == WrittenAddrs(q) \cap SeenAddrs(outcome'[p])
           IN /\ tx[q].state \in {"open", "rolledback"} =>
                    /\ user \notin SeenUsers(outcome'[p])
                    /\ seen = {}
              /\ user \in SeenUsers(outcome'[p]) =>
                    /\ seen = WrittenAddrs(q)
                    /\ Len(local[q].addresses) = Len(call[q].addresses)
              /\ call'[p].op = "getAll" /\ user \notin SeenUsers(outcome'[p]) =>
                    seen = {}

C30_NotVisibleState ==
  \A q \in Procs :
     (call[q].op = "create" /\ tx[q].state \in {"open", "rolledback"}) =>
        /\ tx[q].insU \cap users = {}
        /\ tx[q].insA \cap addresses = {}
        /\ \A r \in Txs \ {q} :
              tx[r].state = "open" =>
                 /\ tx[q].insU \cap VisUsers(tx[r]) = {}
                 /\ tx[q].insA \cap VisAddrs(tx[r]) = {}

\* C30: the rows written by a createUserWithAddresses transaction that is
\* open or rolled back are in no result of getUserWithAddresses or
\* getAllUsersWithAddresses, not among the stored rows and not among the
\* rows another open transaction sees; a read that returns the user of the
\* call returns all the addresses of the call with it, and one that does
\* not return the user returns none of them
C30_AllOrNothingVisible == [][C30_ReadStep]_vars /\ []C30_NotVisibleState

\* getAllUsersWithAddresses has returned the user that a call of another
\* client created, together with its addresses
C30_Witness ==
  \E p \in Procs, q \in Procs :
     /\ p # q
     /\ Ended(p, "getAll") /\ Ended(q, "create") /\ Returned(q)
     /\ Len(local[q].addresses) >= 1
     /\ \E x \in outcome[p].rows :
          /\ x.user = local[q].savedUser
          /\ x.addresses = WrittenAddrs(q)

\* ------------------------------------------------------------------- C31
C31_InsertStep ==
  \A p \in Procs :
     (call[p].op = "create" /\ pc[p] \notin {"idle", "done"}) =>
        /\ tx'[p].insU # tx[p].insU =>
              /\ pc[p] = "c_user"
              /\ tx[p].state = "open" /\ tx[p].insU = {} /\ tx[p].insA = {}
              /\ users' = users
        /\ tx'[p].insA # tx[p].insA =>
              /\ pc[p] = "c_addr"
              /\ tx[p].state = "open" /\ ~tx[p].aborted
              /\ local[p].savedUser \in tx[p].insU
              /\ addresses' = addresses
              /\ LET i == Len(local[p].addresses) + 1
                 IN /\ i <= Len(call[p].addresses)
                    /\ Len(local'[p].addresses) = i
                    /\ local'[p].addresses[i] \in tx'[p].insA \ tx[p].insA
                    /\ local'[p].addresses[i].zipCode = call[p].addresses[i].zipCode
                    /\ local'[p].addresses[i].userId = local[p].savedUser.id
        /\ Len(tx'[p].ends) > Len(tx[p].ends) =>
              /\ tx[p].ends = <<>>
              /\ pc[p] \in {"c_finish", "c_catch"}
        /\ (tx[p].state = "open" /\ tx'[p].state = "committed") =>
              /\ local[p].savedUser \in tx[p].insU
              /\ Len(local[p].addresses) = Len(call[p].addresses)
              /\ ~call[p].shouldFail

C31_StoppedState ==
  \A p \in Procs :
     (call[p].op = "create" /\ (tx[p].aborted \/ local[p].error # NoError)) =>
        pc[p] \in {"c_catch", "done"}

\* C31: createUserWithAddresses inserts the user in its open transaction
\* before any address, then the addresses one by one in input order, each
\* in the same transaction and with the id of the inserted user, and
\* commits only after the last one and the forced failure check; after a
\* failed insert the call issues no other insert
C31_CreateOrder == [][C31_InsertStep]_vars /\ []C31_StoppedState

\* a call with two different addresses has committed them in input order
C31_Witness ==
  \E p \in Procs :
     /\ Ended(p, "create") /\ Returned(p)
     /\ Len(call[p].addresses) = 2
     /\ \A i \in 1..2 : /\ local[p].addresses[i].zipCode = call[p].addresses[i].zipCode
                         /\ local[p].addresses[i] \in addresses
     /\ local[p].addresses[1].id < local[p].addresses[2].id

\* ------------------------------------------------------------------- C32
\* the next statement of call p is an update of its user in transaction2
\* while transaction1 of the same call is open and holds that row
C32_WaitsForItself(p) ==
  /\ pc[p] \in {"l_updateB", "s_updateB"}
  /\ local[p].reads[2] # NoName
  /\ TxOpen(TxB(p)) /\ ~tx[TxB(p)].aborted
  /\ TxOpen(p)
  /\ \E w \in tx[p].updU : w.id = call[p].userId

\* C32: no isolation demonstration waits for a lock that only a later
\* statement of its own script would release, so that each of them goes on
\* to its report or error whenever the store answers the statements that no
\* other open transaction blocks
C32_NoSelfWait ==
  \A p \in Procs : call[p].op \in IsoOps => ~C32_WaitsForItself(p)

\* ------------------------------------------------------------------- C33
\* the demonstrations that take a userId
C33_Ops == IsoOps \ {"phantomRead"}

\* the userId of call c was never given to a row: ids come from the sequence
C33_NoSuchUser(c) == c.op \in C33_Ops /\ c.userId > userSeq

C33_UnchangedStep ==
  \A p \in Procs :
     (C33_NoSuchUser(call'[p]) /\ pc'[p] # pc[p]) =>
        /\ users' = users /\ addresses' = addresses
        /\ \A i \in {p, TxB(p)} :
              tx'[i].insU = {} /\ tx'[i].updU = {} /\ tx'[i].delU = {}

C33_ErrorState ==
  \A p \in Procs :
     (C33_NoSuchUser(call[p]) /\ pc[p] = "done") =>
        /\ Threw(p)
        /\ outcome[p].error \in {UserNotFound, NullName, StoreError}
        /\ ~TxOpen(p) /\ ~TxOpen(TxB(p))
        /\ local[p].reads = <<>>

\* C33: an isolation demonstration called with a userId that matches no
\* user ends with an error, with neither of its transactions open, and none
\* of its steps writes or changes the stored users or addresses
C33_MissingUserFails == [][C33_UnchangedStep]_vars /\ []C33_ErrorState

\* a repeatable read demonstration for a missing user has thrown at its
\* first read and both transactions it had opened are rolled back
C33_Witness ==
  \E p \in Procs :
     /\ Ended(p, "repeatableRead") /\ C33_NoSuchUser(call[p])
     /\ Threw(p) /\ outcome[p].error = NullName
     /\ tx[p].ends = <<"rollback">> /\ tx[TxB(p)].ends = <<"rollback">>

\* ------------------------------------------------------------------- C34
C34_ReportStep ==
  \A p \in Procs :
     (pc[p] = "f_commit" /\ pc'[p] = "done" /\ outcome'[p].kind = "return") =>
        /\ ~outcome'[p].invalidAddress.success
        /\ \A a \in addresses' : a.userId # InvalidUserId
        /\ outcome'[p].validAddress.success =>
              /\ local[p].savedUser \in users'
              /\ \E a \in addresses' : /\ a.id = outcome'[p].validAddress.addressId
                                       /\ a.userId = local[p].savedUser.id

\* C34: when the foreign key demonstration returns, the insert with the
\* unknown userId is reported as failed and has stored no row, and a report
\* with validAddress.success = true names an address that is stored, with
\* its user, once the call has returned
C34_ValidAddressPersisted == [][C34_ReportStep]_vars

\* ------------------------------------------------------------------- C35
\* C35: no transaction receives a rollback after its commit, a commit after
\* its rollback, or a second commit or rollback: each transaction a call
\* opened is ended at most once while the call runs and exactly once when
\* the call is done
C35_EndedOnceEach ==
  /\ \A i \in Txs : Len(tx[i].ends) <= 1
  /\ \A p \in Procs :
        pc[p] = "done" =>
           \A i \in {p, TxB(p)} : tx[i].state # "none" => Len(tx[i].ends) = 1

\* ------------------------------------------------------------------- C36
\* C36: of two deleteUser calls for the same user that run at the same time
\* at most one returns true; the other one throws
C36_AtMostOneDeletes ==
  \A p, q \in Procs :
     (p # q /\ Ended(p, "delete") /\ Ended(q, "delete")
        /\ call[p].userId = call[q].userId) =>
        ~(Returned(p) /\ Returned(q))

\* ------------------------------------------------------------------- C37
\* calls p and q are two createUserWithAddresses calls with the same email
\* that have both ended
C37_BothEnded(p, q) ==
  /\ p # q /\ Ended(p, "create") /\ Ended(q, "create")
  /\ call[p].user.email = call[q].user.email

\* call p is a createUserWithAddresses call whose user insert is pending in
\* its open transaction
C37_Pending(p) ==
  call[p].op = "create" /\ TxOpen(p) /\ tx[p].insU # {}

C37_OneCommitsState ==
  /\ \A p, q \in Procs :
        (p # q /\ C37_Pending(p) /\ C37_Pending(q)) =>
           call[p].user.email # call[q].user.email
  /\ \A p \in Procs :
        C37_Pending(p) => \A u \in users : u.email # call[p].user.email
  /\ \A q \in Procs :
        (Ended(q, "create") /\ Threw(q)) =>
           /\ tx[q].state = "rolledback"
           /\ tx[q].insU \cap users = {}
           /\ tx[q].insA \cap addresses = {}
           /\ \A a \in addresses : \A u \in tx[q].insU : a.userId # u.id
  /\ \A u, v \in users : u.email = v.email => u = v

\* while a committed user holds the email the insert of a call is rejected,
\* an insert is rejected as a duplicate only then, and a call commits only
\* while no other running call has the same email inserted
C37_RejectedStep ==
  \A q \in Procs :
     /\ (call[q].op = "create" /\ pc[q] = "c_user" /\ pc'[q] # pc[q]
           /\ \E u \in users : u.email = call[q].user.email) =>
           /\ pc'[q] = "c_catch"
           /\ local'[q].error \in {UniqueViolation, StoreError}
     /\ (pc[q] = "c_user" /\ local'[q].error = UniqueViolation) =>
           \E u \in users : u.email = call[q].user.email
     /\ (call[q].op = "create" /\ pc[q] = "c_finish" /\ outcome'[q].kind = "return") =>
           \A p \in Procs \ {q} :
              (call[p].op = "create" /\ call[p].user.email = call[q].user.email
                 /\ pc[p] \notin {"idle", "done"}) =>
                 /\ tx[p].insU = {}
                 /\ pc[p] \in {"c_user", "c_catch"}

\* C37: of two createUserWithAddresses calls with the same email that run
\* at the same time at most one has its user inserted and can commit; once
\* a user with that email is committed the insert of the other call is
\* rejected, and it is rejected as a duplicate only then; the call that
\* fails is rolled back and none of its rows, user or address, is stored;
\* no two stored users share an email
C37_OneCommits == [][C37_RejectedStep]_vars /\ []C37_OneCommitsState

\* one call has committed its user and addresses, the other, with the same
\* email, was rejected as a duplicate; one user holds the email
C37_Witness ==
  \E p, q \in Procs :
     /\ C37_BothEnded(p, q)
     /\ Returned(p) /\ Len(local[p].addresses) > 0
     /\ Threw(q) /\ outcome[q].error = UniqueViolation
     /\ {u \in users : u.email = call[p].user.email} = {local[p].savedUser}
     /\ \A a \in addresses : a.userId = local[p].savedUser.id

\* ------------------------------------------------------------------- C38
C38_FrameStep ==
  \A p \in Procs :
     (call[p].op = "delete" /\ pc[p] \notin {"idle", "done"} /\ pc'[p] # pc[p]) =>
        LET id == call[p].userId
        IN /\ {u \in users' : u.id # id} = {u \in users : u.id # id}
           /\ {a \in addresses' : a.userId # id} = {a \in addresses : a.userId # id}
           /\ users' \subseteq users /\ addresses' \subseteq addresses
           /\ tx'[p].delU \subseteq {id}
           /\ \A a \in addresses : a.id \in tx'[p].delA => a.userId = id
           /\ tx'[p].insU = {} /\ tx'[p].insA = {} /\ tx'[p].updU = {}
           /\ outcome'[p].kind = "throw" => users' = users /\ addresses' = addresses

\* C38: a step of deleteUser(id) changes no stored user but the one with
\* that id and no stored address but those of that user, writes nothing
\* else in its transaction, and changes nothing at all when the call throws
C38_DeleteFrame == [][C38_FrameStep]_vars

\* a delete has returned true, its user and the addresses of that user are
\* gone, and another user is stored with an address
C38_Witness ==
  \E p \in Procs :
     /\ Ended(p, "delete") /\ Returned(p)
     /\ tx[p].delU = {call[p].userId} /\ tx[p].delA # {}
     /\ \A u \in users : u.id # call[p].userId
     /\ \A a \in addresses : a.userId # call[p].userId
     /\ \E u \in users : \E a \in addresses : a.userId = u.id

\* ------------------------------------------------------------------- C39
C39_TrueOrThrowState ==
  \A p \in Procs :
     call[p].op = "delete" =>
        /\ outcome[p].kind = "return" => outcome[p].value = TRUE
        /\ pc[p] = "done" =>
              /\ outcome[p].kind \in {"return", "throw"}
              /\ DeleteRouteStatus(outcome[p]) \in {200, 500}

\* a deleteUser call ends by the return after its commit or by the throw of
\* its catch block, and by nothing else
C39_EndStep ==
  \A p \in Procs :
     (call[p].op = "delete" /\ pc[p] # "done" /\ pc'[p] = "done") =>
        \/ pc[p] = "d_commit" /\ outcome'[p] = [kind |-> "return", value |-> TRUE]
        \/ pc[p] = "d_catch" /\ outcome'[p].kind = "throw"

\* C39: deleteUser never returns false: a call that has ended returned true
\* or threw, also for a user that does not exist, so the route never answers
\* with the 404 of its 'deleted is false' branch
C39_NeverFalse == [][C39_EndStep]_vars /\ []C39_TrueOrThrowState

\* one delete has returned true and the route answers 200, another, for a
\* user that is not stored, has thrown and the route answers 500
C39_Witness ==
  \E p, q \in Procs :
     /\ Ended(p, "delete") /\ Returned(p) /\ DeleteRouteStatus(outcome[p]) = 200
     /\ Ended(q, "delete") /\ Threw(q) /\ outcome[q].error = UserNotFound
     /\ DeleteRouteStatus(outcome[q]) = 500
====
